---- MODULE Spec2Model ----
(***************************************************************************)
(* FileHawk: the incremental indexing and real-time synchronisation        *)
(* engine (api.py, metadata_tracker.py, sync_tracker.py).                  *)
(*                                                                         *)
(* Paths are sequences of path components, all absolute.  Documents are    *)
(* abstracted to a content id; chunking a document with content c yields   *)
(* NumChunks(c) chunks, and a stored row remembers the content id it was   *)
(* cut from.  Times are integer ticks of half a second.                    *)
(***************************************************************************)
EXTENDS Integers, Sequences, FiniteSets, TLC

VARIABLES
    fs,                   \* the filesystem: path -> [exists, content, mtime]
    metadata,             \* MetadataTracker.metadata: path -> [modes: mode -> ModeRecord]
    collection,           \* gist_collection / pinpoint_collection: mode -> set of rows
    indexing_status,      \* api.indexing_status, the shared run status record
    workers,              \* the background threads started by the request handlers
    monitored_folders,    \* SyncTracker.monitored_folders: mode -> set of folders
    sync_queue,           \* SyncTracker.sync_queue: mode -> (path -> event)
    embed_calls,          \* number of model.encode calls made by each thread's current run
    budget,               \* how many runs, file changes, events and queue clean-ups so far
    pending_events,       \* FileFinderEventHandler.pending_events: path -> buffered raw event types
    timers,               \* the threading.Timer objects started and not yet run: [path, deadline]
    in_flight,            \* path -> final event types determined and not yet handed to SyncTracker
    stat_cache,           \* SyncTracker._stat_cache: path -> [mtime, size, timestamp]
    now,                  \* time.time(), in ticks
    audit,                \* per path: raw events accepted, covered by a window, windows, deliveries
    metadata_file,        \* file_metadata.json: [exists, table]
    save_metadata,        \* what MetadataTracker.save_metadata is bound to: [bound, aliased, migrated]
    classified,           \* the last result of get_files_to_index: [mode, files_to_index, files_to_skip]
    last_op,              \* the last MetadataTracker call: [op, path, mode, before]
    repo,                 \* a cloned repository and the arguments of a scan: [exists, tree, custom_excludes, max_size_mb]
    manifest_data,        \* BranchManifest.manifest_data: [files: relative path -> [hash, size]]
    changes,              \* what detect_changes returned: [done, current_files, added, modified, removed]
    accepted,             \* the files index_github_repository went on to extract: [done, files]
    handling              \* handle_file_event calls between their folder lookup and the lock: set of [path, event_type, monitored_folders]

\* The metadata file is followed in SpecTable only; the other specifications
\* start without one and leave both variables as they are.
table_vars == <<metadata_file, save_metadata, classified, last_op>>

\* The branch manifest is followed in SpecManifest only.
manifest_vars == <<repo, manifest_data, changes, accepted>>

monitor_vars == <<pending_events, timers, in_flight, stat_cache, now, audit, table_vars,
                  manifest_vars, handling>>

vars == <<fs, metadata, collection, indexing_status, workers,
          monitored_folders, sync_queue, embed_calls, budget, monitor_vars>>

(***************************************************************************)
(* The universe of the model.                                              *)
(***************************************************************************)
Modes == {"gist", "pinpoint"}

FolderA == <<"a">>
FolderS == <<"a", "s">>
File1 == <<"a", "f1.txt">>
File2 == <<"a", "s", "f2.py">>
FileLog == <<"a", "app.log">>
RepoDir == <<"home", ".filesearcher", "repos", "o_r">>
RepoFile == <<"home", ".filesearcher", "repos", "o_r", "g.py">>

Folders == {FolderA, FolderS}
LocalFiles == {File1, File2, FileLog}
AllFiles == LocalFiles \cup {RepoFile}

\* Content ids.  "empty" extracts to no text, "short" to fewer than
\* MIN_CONTENT_LENGTH characters; v1 and v1b have the same size.
Contents == {"empty", "short", "v1", "v1b", "v2"}

NumChunks(c) == CASE c = "v1" -> 1
                  [] c = "v1b" -> 1
                  [] c = "v2" -> 2
                  [] c = "short" -> 1
                  [] c = "placeholder" -> 1
                  [] OTHER -> 0

FileSize(c) == CASE c = "empty" -> 0
                 [] c = "short" -> 1
                 [] c = "v1" -> 2
                 [] c = "v1b" -> 2
                 [] c = "v2" -> 3
                 [] OTHER -> 0

\* The length of the stripped text extract_text returns for a content id.
TextLength(c) == CASE c = "empty" -> 0
                   [] c = "short" -> 5
                   [] OTHER -> 100

MIN_CONTENT_LENGTH == 10

\* The 1.0 s mtime tolerance, in ticks of half a second.
OneSecond == 2
MaxTime == 2
Times == 0..MaxTime

NoFile == [exists |-> FALSE, content |-> "empty", mtime |-> 0]

(***************************************************************************)
(* os.path helpers on component sequences.                                 *)
(***************************************************************************)
basename(p) == p[Len(p)]

dirname(p) == SubSeq(p, 1, Len(p) - 1)

\* os.path.abspath / os.path.normpath: drops "." components.
abspath(p) == SelectSeq(p, LAMBDA c : c # ".")

\* Path(file).relative_to(Path(folder)) does not raise.
IsUnder(file, folder) ==
    /\ Len(folder) <= Len(file)
    /\ SubSeq(file, 1, Len(folder)) = folder

exists(p) == fs[p].exists

\* filtering_utils.is_hidden_path: some component starts with '.'.
HiddenComponents == {".filesearcher", ".git"}

is_hidden_path(p) == \E i \in 1..Len(p) : p[i] \in HiddenComponents

(***************************************************************************)
(* MetadataTracker (ChangeDetector).  The table is passed explicitly so    *)
(* that a handler can thread it through several calls.                     *)
(***************************************************************************)
NoMode == "none"
NoHash == ""

Abs(x) == IF x < 0 THEN -x ELSE x

\* get_file_stats: (hash, mtime, size), or ("", 0, 0) when the file cannot be read.
get_file_stats(p) ==
    IF fs[p].exists
    THEN [file_hash |-> fs[p].content, mtime |-> fs[p].mtime, size |-> FileSize(fs[p].content)]
    ELSE [file_hash |-> NoHash, mtime |-> 0, size |-> 0]

has_file_in_mode(md, p, mode) ==
    /\ p \in DOMAIN md
    /\ mode \in DOMAIN md[p].modes

\* A comparison that reads the chunk count where the size is stored
is_file_unchanged_WrongField(md, p, mode) ==
    /\ has_file_in_mode(md, p, mode)
    /\ LET mode_info == md[p].modes[mode]
           cur == get_file_stats(p)
       IN /\ cur.file_hash # NoHash
          /\ cur.file_hash = mode_info.file_hash
          /\ Abs(cur.mtime - mode_info.last_modified) < OneSecond
          /\ cur.size = mode_info.num_chunks

\* A comparison that never looks at the modification time
is_file_unchanged_NoMtime(md, p, mode) ==
    /\ has_file_in_mode(md, p, mode)
    /\ LET mode_info == md[p].modes[mode]
           cur == get_file_stats(p)
       IN /\ cur.file_hash # NoHash
          /\ cur.file_hash = mode_info.file_hash
          /\ cur.size = mode_info.file_size

\* is_file_unchanged: same hash, mtime within a second, same size.
is_file_unchanged(md, p, mode) ==
    /\ has_file_in_mode(md, p, mode)
    /\ LET mode_info == md[p].modes[mode]
           cur == get_file_stats(p)
       IN /\ cur.file_hash # NoHash
          /\ cur.file_hash = mode_info.file_hash
          /\ Abs(cur.mtime - mode_info.last_modified) < OneSecond
          /\ cur.size = mode_info.file_size

\* get_files_to_index: the paths classify puts in needsIndex.
get_files_to_index(md, paths, mode) ==
    {p \in paths : ~is_file_unchanged(md, p, mode)}

\* get_files_to_index, second component: the paths classify puts in canSkip.
get_files_to_skip(md, paths, mode) ==
    {p \in paths : is_file_unchanged(md, p, mode)}

update_file_metadata(md, p, mode, num_chunks) ==
    LET cur == get_file_stats(p)
        rec == [file_hash |-> cur.file_hash, last_modified |-> cur.mtime,
                file_size |-> cur.size, num_chunks |-> num_chunks]
        old == IF p \in DOMAIN md THEN md[p].modes ELSE <<>>
        new == [m \in (DOMAIN old) \cup {mode} |-> IF m = mode THEN rec ELSE old[m]]
    IN [q \in (DOMAIN md) \cup {p} |-> IF q = p THEN [modes |-> new] ELSE md[q]]

DropKey(f, k) == [x \in (DOMAIN f) \ {k} |-> f[x]]

\* A removal that drops the whole entry whatever mode is named
remove_file_metadata_WholeEntry(md, p, mode) ==
    IF p \in DOMAIN md THEN DropKey(md, p) ELSE md

remove_file_metadata(md, p, mode) ==
    IF p \notin DOMAIN md THEN md
    ELSE IF mode = NoMode THEN DropKey(md, p)
    ELSE IF mode \in DOMAIN md[p].modes
         THEN LET left == DropKey(md[p].modes, mode)
              IN IF DOMAIN left = {} THEN DropKey(md, p)
                 ELSE [md EXCEPT ![p] = [modes |-> left]]
         ELSE md

(***************************************************************************)
(* The vector store.  A row is [src, path, chunk_index, doc]; its id is    *)
(* "{mode}-{path}-{chunk_index}" for a local file and                      *)
(* "gh://{repo}@{branch}:{rel}-{chunk_index}" for a repository file, so    *)
(* within one mode's collection (src, path, chunk_index) is the id.        *)
(***************************************************************************)
RowId(r) == <<r.src, r.path, r.chunk_index>>

\* collection.get(where={"path": p})
GetWherePath(rows, p) == {r \in rows : r.path = p}

\* collection.add: a record whose id is already stored is ignored.
CollectionAdd(rows, r) ==
    IF \E x \in rows : RowId(x) = RowId(r) THEN rows ELSE rows \cup {r}

\* One collection.add per chunk index in idxs of a document.
RECURSIVE AddChunks(_, _, _, _, _)
AddChunks(rows, src, p, doc, idxs) ==
    IF idxs = {} THEN rows
    ELSE LET k == CHOOSE i \in idxs : TRUE
         IN AddChunks(CollectionAdd(rows, [src |-> src, path |-> p,
                                           chunk_index |-> k, doc |-> doc]),
                      src, p, doc, idxs \ {k})

\* The rows a path has when the index holds exactly the chunks of content c.
ChunksOf(src, p, c) ==
    {[src |-> src, path |-> p, chunk_index |-> i, doc |-> c] : i \in 1..NumChunks(c)}

IsRepoPath(p) == \E i \in 1..(Len(p) - 1) : p[i] = ".filesearcher" /\ p[i + 1] = "repos"

\* cleanup_indexed_files_for_cancellation: the collections and the table after it.
cleanup_indexed_files_for_cancellation(col, md, file_paths, mode) ==
    LET RECURSIVE Strip(_, _)
        Strip(m, ps) ==
            IF ps = {} THEN m
            ELSE LET p == CHOOSE x \in ps : TRUE
                 IN Strip(IF IsRepoPath(p) THEN m ELSE remove_file_metadata(m, p, NoMode),
                          ps \ {p})
    IN IF mode \notin Modes THEN [col |-> col, md |-> md]
       ELSE [col |-> [col EXCEPT ![mode] = {r \in @ : r.path \notin file_paths}],
             md |-> Strip(md, file_paths)]

(***************************************************************************)
(* SyncTracker (SyncQueue).  An event is [event_type, folder_path]; its    *)
(* file_path is its key in the queue and its chunking_mode the queue's.    *)
(***************************************************************************)
EventTypes == {"created", "modified", "deleted"}

\* The file names of the universe that contain one of the ignore patterns.
IgnoredNames == {"app.log"}

\* SyncTracker._should_ignore_file
should_ignore_file(p) == basename(p) \in IgnoredNames

\* A lookup that stops at the first matching mode, as should_monitor_file does
get_all_matching_modes_First(mf, p) ==
    IF should_ignore_file(abspath(p)) THEN {}
    ELSE LET all == {mfp \in Modes \X Folders :
                        /\ mfp[2] \in mf[mfp[1]]
                        /\ IsUnder(abspath(p), mfp[2])}
         IN IF all = {} THEN {}
            ELSE LET first == CHOOSE mfp \in all : TRUE
                 IN {mfp \in all : mfp[1] = first[1]}

\* get_all_matching_modes: the (mode, folder) pairs whose folder is an ancestor.
get_all_matching_modes(mf, p) ==
    IF should_ignore_file(abspath(p)) THEN {}
    ELSE {mfp \in Modes \X Folders :
             /\ mfp[2] \in mf[mfp[1]]
             /\ IsUnder(abspath(p), mfp[2])}

\* SyncTracker._cache_ttl: 2.0 seconds, in ticks.
cache_ttl == 4

\* A _stat_cache entry younger than _cache_ttl at time t.
cache_is_fresh(cache, t, p) ==
    /\ p \in DOMAIN cache
    /\ t - cache[p].timestamp < cache_ttl

\* A fast check that always stats the file and never looks at _stat_cache
file_needs_indexing_fast_NoCache(md, cache, t, p, mode) ==
    IF ~has_file_in_mode(md, p, mode) THEN TRUE
    ELSE IF ~fs[p].exists THEN TRUE
    ELSE LET mode_info == md[p].modes[mode]
         IN \/ Abs(fs[p].mtime - mode_info.last_modified) >= OneSecond
            \/ FileSize(fs[p].content) # mode_info.file_size

\* _file_needs_indexing_fast: no hash.  A fresh _stat_cache entry stands in
\* for os.stat; otherwise the file is stat-ed (a missing file needs indexing).
file_needs_indexing_fast(md, cache, t, p, mode) ==
    IF ~has_file_in_mode(md, p, mode) THEN TRUE
    ELSE LET mode_info == md[p].modes[mode]
         IN IF cache_is_fresh(cache, t, p)
            THEN \/ Abs(cache[p].mtime - mode_info.last_modified) >= OneSecond
                 \/ cache[p].size # mode_info.file_size
            ELSE IF ~fs[p].exists THEN TRUE
            ELSE \/ Abs(fs[p].mtime - mode_info.last_modified) >= OneSecond
                 \/ FileSize(fs[p].content) # mode_info.file_size

\* _add_to_sync_queue on one mode's queue: last write wins.
add_to_sync_queue(q, p, event_type, folder) ==
    LET ev == [event_type |-> event_type, folder_path |-> folder]
    IN [x \in (DOMAIN q) \cup {abspath(p)} |-> IF x = abspath(p) THEN ev ELSE q[x]]

\* remove_from_sync_queue on one mode's queue.
remove_from_sync_queue(q, p) == DropKey(q, abspath(p))

\* handle_file_event that leaves a pending event in place when the fast check
\* finds the file unchanged
handle_file_event_NoRemove(sq, mf, md, cache, t, p, event_type, last) ==
    LET matches == get_all_matching_modes(mf, p)
    IN [m \in Modes |->
          IF ~\E mfp \in matches : mfp[1] = m THEN sq[m]
          ELSE IF event_type = "deleted"
               THEN add_to_sync_queue(sq[m], p, event_type, last[m])
          ELSE IF event_type \notin {"created", "modified"} THEN sq[m]
          ELSE IF file_needs_indexing_fast(md, cache, t, p, m)
               THEN add_to_sync_queue(sq[m], p, event_type, last[m])
          ELSE sq[m]]

\* handle_file_event: the queues after the event has been processed for every
\* matching (mode, folder) pair; last[m] is the folder of mode m the loop
\* visits last (the iteration order of a set is not fixed by the code).
\* Every fast check of one call sees the same answer from _stat_cache: an
\* entry written by the first check holds what os.stat returns to the others.
handle_file_event(sq, mf, md, cache, t, p, event_type, last) ==
    LET matches == get_all_matching_modes(mf, p)
    IN [m \in Modes |->
          IF ~\E mfp \in matches : mfp[1] = m THEN sq[m]
          ELSE IF event_type = "deleted"
               THEN add_to_sync_queue(sq[m], p, event_type, last[m])
          ELSE IF event_type \notin {"created", "modified"} THEN sq[m]
          ELSE IF file_needs_indexing_fast(md, cache, t, p, m)
               THEN add_to_sync_queue(sq[m], p, event_type, last[m])
          ELSE IF p \in DOMAIN sq[m] THEN remove_from_sync_queue(sq[m], p)
          ELSE sq[m]]

\* _stat_cache after handle_file_event: a created or modified event for a
\* path with a ModeRecord in a matching mode stats the file and stores the
\* result, unless a fresh entry is there or the file is gone.
stat_cache_after(mf, md, cache, t, p, event_type) ==
    IF /\ event_type \in {"created", "modified"}
       /\ \E mfp \in get_all_matching_modes(mf, p) : has_file_in_mode(md, p, mfp[1])
       /\ ~cache_is_fresh(cache, t, p)
       /\ fs[p].exists
    THEN [x \in (DOMAIN cache) \cup {p} |->
             IF x = p THEN [mtime |-> fs[p].mtime, size |-> FileSize(fs[p].content),
                            timestamp |-> t]
             ELSE cache[x]]
    ELSE cache

\* The choices of "folder visited last" that handle_file_event can see.
LastFolders(mf, p) ==
    {last \in [Modes -> Folders \cup {<<>>}] :
        \A m \in Modes :
            IF \E mfp \in get_all_matching_modes(mf, p) : mfp[1] = m
            THEN <<m, last[m]>> \in get_all_matching_modes(mf, p)
            ELSE last[m] = <<>>}

\* mark_files_synced on the queues
mark_files_synced(sq, file_paths, mode) ==
    [sq EXCEPT ![mode] = [x \in (DOMAIN @) \ {abspath(p) : p \in file_paths} |-> @[x]]]

\* A clear that empties the queue of every mode, as clear_all_sync_data does
clear_sync_queue_All(sq, mode) == [m \in Modes |-> <<>>]

\* clear_sync_queue on the queues
clear_sync_queue(sq, mode) == [sq EXCEPT ![mode] = <<>>]

\* get_files_to_sync: a snapshot (path -> event_type) of one mode's queue.
get_files_to_sync(sq, mode) == [x \in DOMAIN sq[mode] |-> sq[mode][x].event_type]

(***************************************************************************)
(* Background threads.  A thread is idle or runs one of                    *)
(*   "index": index_folders_background                                     *)
(*   "sync":  execute_sync_background                                      *)
(*   "repo":  github_index_repo.run_indexing / index_github_repository     *)
(***************************************************************************)
Threads == {"t1", "t2"}

IdleThread ==
    [pc |-> "idle", kind |-> "none", mode |-> NoMode, folders |-> {},
     todo |-> {}, files_to_index |-> {}, events |-> <<>>,
     synced_files |-> {}, failed_files |-> {},
     raised |-> "none",   \* the exception caught by the run's except clause
     touched |-> {},      \* the paths this run appended to indexed_files_this_session
     prior |-> {},        \* the paths that had a FileRecord when the run started
     current |-> <<>>]    \* the file the loop body is working on, when a step ends inside it

\* The thread a threading.Thread(...).start() gets.
FreeThread == IF workers["t1"].pc = "idle" THEN "t1" ELSE "t2"

HasFreeThread == \E t \in Threads : workers[t].pc = "idle"

\* os.walk over the requested folders with the hidden/system filters of
\* index_folders_background.
WalkFolders(folders) ==
    {p \in LocalFiles :
        /\ fs[p].exists
        /\ \E f \in folders : IsUnder(p, f) /\ ~is_hidden_path(f)
        /\ ~is_hidden_path(dirname(p))}

(***************************************************************************)
(* The environment: files are written and deleted.                         *)
(***************************************************************************)
WriteFile(p, c, t) ==
    /\ fs[p] # [exists |-> TRUE, content |-> c, mtime |-> t]
    /\ fs' = [fs EXCEPT ![p] = [exists |-> TRUE, content |-> c, mtime |-> t]]
    /\ UNCHANGED <<monitor_vars, metadata, collection, indexing_status, workers,
                   monitored_folders, sync_queue, embed_calls>>

DeleteFile(p) ==
    /\ fs[p].exists
    /\ fs' = [fs EXCEPT ![p] = NoFile]
    /\ UNCHANGED <<monitor_vars, metadata, collection, indexing_status, workers,
                   monitored_folders, sync_queue, embed_calls>>

(***************************************************************************)
(* POST /api/index and index_folders_background.                           *)
(***************************************************************************)
\* index_folders: rejected while is_indexing is set; otherwise reset the
\* cancel flag and the session list and start the thread.
index_folders(folders, mode) ==
    /\ ~indexing_status.is_indexing
    /\ HasFreeThread
    /\ indexing_status' = [indexing_status EXCEPT !.cancel_requested = FALSE,
                                                  !.indexed_files_this_session = {}]
    /\ workers' = [workers EXCEPT ![FreeThread] =
                      [IdleThread EXCEPT !.pc = "start", !.kind = "index",
                                         !.mode = mode, !.folders = folders]]
    /\ embed_calls' = [embed_calls EXCEPT ![FreeThread] = 0]
    /\ UNCHANGED <<monitor_vars, fs, metadata, collection, monitored_folders, sync_queue>>

\* cancel_indexing
cancel_indexing ==
    /\ indexing_status.is_indexing
    /\ ~indexing_status.cancel_requested
    /\ indexing_status' = [indexing_status EXCEPT !.cancel_requested = TRUE,
                                                  !.message = "cancelling"]
    /\ UNCHANGED <<monitor_vars, fs, metadata, collection, workers, monitored_folders,
                   sync_queue, embed_calls, budget>>

\* index_folders_background up to the file loop: mark the run active, scan
\* the folders, classify.  With nothing to index the run ends here.
IndexStart(t) ==
    /\ workers[t].pc = "start"
    /\ workers[t].kind = "index"
    /\ LET all_files == WalkFolders(workers[t].folders)
           files_to_index == get_files_to_index(metadata, all_files, workers[t].mode)
       IN IF files_to_index = {}
          THEN /\ indexing_status' = [indexing_status EXCEPT !.is_indexing = FALSE,
                                                             !.message = "uptodate"]
               /\ workers' = [workers EXCEPT ![t] = IdleThread]
          ELSE /\ indexing_status' = [indexing_status EXCEPT !.is_indexing = TRUE,
                                                             !.message = "running"]
               /\ workers' = [workers EXCEPT ![t].pc = "loop",
                                             ![t].todo = all_files,
                                             ![t].files_to_index = files_to_index,
                                             ![t].prior = DOMAIN metadata]
    /\ UNCHANGED <<monitor_vars, fs, metadata, collection, monitored_folders, sync_queue, embed_calls, budget>>

\* One iteration of the file loop for path p; stored is the number of chunks
\* embedded and added before an exception escapes (all of them: none escapes).
IndexFileBody(t, p, stored) ==
    LET mode == workers[t].mode
        content == IF fs[p].exists THEN fs[p].content ELSE "empty"
        n == NumChunks(content)
        skip == \/ p \notin workers[t].files_to_index
                \/ TextLength(content) < MIN_CONTENT_LENGTH
                \/ n = 0
    IN /\ workers[t].pc = "loop"
       /\ workers[t].kind = "index"
       /\ p \in workers[t].todo
       /\ stored \in 0..n
       /\ skip => stored = n
       /\ IF skip
          THEN /\ workers' = [workers EXCEPT ![t].current = <<>>, ![t].todo = @ \ {p}]
               /\ UNCHANGED <<metadata, collection, indexing_status, embed_calls>>
          ELSE /\ collection' = [collection EXCEPT ![mode] =
                                    AddChunks(@, "local", p, content, 1..stored)]
               /\ IF stored = n
                  THEN /\ metadata' = update_file_metadata(metadata, p, mode, n)
                       /\ indexing_status' =
                             [indexing_status EXCEPT !.indexed_files_this_session = @ \cup {p},
                                                     !.message = "running"]
                       /\ workers' = [workers EXCEPT ![t].current = <<>>, ![t].todo = @ \ {p},
                                                     ![t].touched = @ \cup {p}]
                       /\ embed_calls' = [embed_calls EXCEPT ![t] = @ + n]
                  ELSE /\ workers' = [workers EXCEPT ![t].current = <<>>, ![t].pc = "except",
                                                     ![t].raised = "error"]
                       /\ embed_calls' = [embed_calls EXCEPT ![t] = @ + stored + 1]
                       /\ UNCHANGED <<metadata, indexing_status>>
       /\ UNCHANGED <<monitor_vars, fs, monitored_folders, sync_queue, budget>>

\* One iteration of the file loop in one step: the check at its head, then the body.
IndexFile(t, p, stored) ==
    /\ ~indexing_status.cancel_requested
    /\ workers[t].current = <<>>
    /\ IndexFileBody(t, p, stored)

\* The body of an iteration that FileBegin started.
IndexFileEnd(t, stored) ==
    /\ workers[t].current # <<>>
    /\ IndexFileBody(t, workers[t].current, stored)

\* The check at the head of the loop finds no cancellation and the body
\* starts on p; the step ends inside the body.
FileBegin(t, p) ==
    /\ workers[t].pc = "loop"
    /\ workers[t].kind \in {"index", "sync"}
    /\ workers[t].current = <<>>
    /\ ~indexing_status.cancel_requested
    /\ p \in workers[t].todo
    /\ workers' = [workers EXCEPT ![t].current = p]
    /\ UNCHANGED <<monitor_vars, fs, metadata, collection, indexing_status, monitored_folders,
                   sync_queue, embed_calls, budget>>

\* The cancellation check at the top of the loop raises.
LoopCancelled(t) ==
    /\ workers[t].pc = "loop"
    /\ workers[t].current = <<>>
    /\ workers[t].todo # {}
    /\ indexing_status.cancel_requested
    /\ workers' = [workers EXCEPT ![t].pc = "except", ![t].raised = "cancelled"]
    /\ UNCHANGED <<monitor_vars, fs, metadata, collection, indexing_status, monitored_folders,
                   sync_queue, embed_calls, budget>>

\* realtime_monitor.add_folder for each requested folder
add_folders(mf, folders, mode) ==
    [mf EXCEPT ![mode] = @ \cup {abspath(f) : f \in folders}]

\* The loop is over: final status, then register the folders for monitoring.
IndexFinish(t) ==
    /\ workers[t].pc = "loop"
    /\ workers[t].kind = "index"
    /\ workers[t].todo = {}
    /\ indexing_status' = [indexing_status EXCEPT !.is_indexing = FALSE,
                                                  !.message = "complete"]
    /\ monitored_folders' = add_folders(monitored_folders, workers[t].folders,
                                        workers[t].mode)
    /\ workers' = [workers EXCEPT ![t] = IdleThread]
    /\ UNCHANGED <<monitor_vars, fs, metadata, collection, sync_queue, embed_calls, budget>>

\* The status a run leaves when its except clause finds the cancel flag set
CancelledStatus ==
    [is_indexing |-> FALSE, cancel_requested |-> FALSE,
     indexed_files_this_session |-> {}, message |-> "cancelled"]

\* An except clause that rolls the session back whatever the cancel flag says
ExceptRollback_Always(col, md, st, mode) ==
    cleanup_indexed_files_for_cancellation(col, md, st.indexed_files_this_session, mode)

\* The collections and the table after the except clause of a local run:
\* rollback when the cancel flag is set, nothing otherwise.
ExceptRollback(col, md, st, mode) ==
    IF st.cancel_requested
    THEN cleanup_indexed_files_for_cancellation(col, md, st.indexed_files_this_session, mode)
    ELSE [col |-> col, md |-> md]

\* except Exception of index_folders_background and execute_sync_background
RunExcept(t) ==
    /\ workers[t].pc = "except"
    /\ workers[t].kind \in {"index", "sync"}
    /\ LET after == ExceptRollback(collection, metadata, indexing_status, workers[t].mode)
       IN /\ collection' = after.col
          /\ metadata' = after.md
    /\ indexing_status' =
          IF indexing_status.cancel_requested THEN CancelledStatus
          ELSE [indexing_status EXCEPT !.is_indexing = FALSE, !.message = "error"]
    /\ workers' = [workers EXCEPT ![t] = IdleThread]
    /\ UNCHANGED <<monitor_vars, fs, monitored_folders, sync_queue, embed_calls, budget>>

(***************************************************************************)
(* POST /api/sync/execute and execute_sync_background.                     *)
(***************************************************************************)
\* execute_sync: snapshot the mode's queue; with a non-empty snapshot start
\* the thread.
execute_sync(mode) ==
    /\ DOMAIN sync_queue[mode] # {}
    /\ HasFreeThread
    /\ workers' = [workers EXCEPT ![FreeThread] =
                      [IdleThread EXCEPT !.pc = "start", !.kind = "sync", !.mode = mode,
                                         !.events = get_files_to_sync(sync_queue, mode),
                                         !.todo = DOMAIN sync_queue[mode]]]
    /\ embed_calls' = [embed_calls EXCEPT ![FreeThread] = 0]
    /\ UNCHANGED <<monitor_vars, fs, metadata, collection, indexing_status, monitored_folders, sync_queue>>

\* execute_sync_background before its loop
SyncStart(t) ==
    /\ workers[t].pc = "start"
    /\ workers[t].kind = "sync"
    /\ indexing_status' = [is_indexing |-> TRUE, cancel_requested |-> FALSE,
                           indexed_files_this_session |-> {}, message |-> "running"]
    /\ workers' = [workers EXCEPT ![t].pc = "loop", ![t].prior = DOMAIN metadata]
    /\ UNCHANGED <<monitor_vars, fs, metadata, collection, monitored_folders, sync_queue, embed_calls, budget>>

\* A deletion handler that drops the whole FileRecord of the path
handle_file_deletion_WholeEntry(rows, md, p, mode) ==
    [rows |-> rows \ GetWherePath(rows, p),
     md |-> remove_file_metadata(md, p, NoMode)]

\* _handle_file_deletion: the collection rows and the table after a
\* deletion that returned True.
handle_file_deletion(rows, md, p, mode) ==
    [rows |-> rows \ GetWherePath(rows, p),
     md |-> IF has_file_in_mode(md, p, mode)
            THEN IF \E m \in DOMAIN md[p].modes : m # mode
                 THEN remove_file_metadata(md, p, mode)
                 ELSE remove_file_metadata(md, p, NoMode)
            ELSE md]

\* A deleted event of the snapshot; ok is FALSE when the store raises, and
\* then _handle_file_deletion returns False with nothing changed.
SyncDeleteBody(t, p, ok) ==
    LET mode == workers[t].mode
        after == handle_file_deletion(collection[mode], metadata, p, mode)
    IN /\ workers[t].pc = "loop"
       /\ workers[t].kind = "sync"
       /\ p \in workers[t].todo
       /\ workers[t].events[p] = "deleted"
       /\ IF ok
          THEN /\ collection' = [collection EXCEPT ![mode] = after.rows]
               /\ metadata' = after.md
               /\ workers' = [workers EXCEPT ![t].current = <<>>, ![t].todo = @ \ {p},
                                             ![t].synced_files = @ \cup {p}]
          ELSE /\ workers' = [workers EXCEPT ![t].current = <<>>, ![t].todo = @ \ {p},
                                             ![t].failed_files = @ \cup {p}]
               /\ UNCHANGED <<collection, metadata>>
       /\ UNCHANGED <<monitor_vars, fs, indexing_status, monitored_folders, sync_queue, embed_calls, budget>>

\* One iteration of the sync loop on a deleted event, in one step.
SyncDelete(t, p, ok) ==
    /\ ~indexing_status.cancel_requested
    /\ workers[t].current = <<>>
    /\ SyncDeleteBody(t, p, ok)

\* The body of an iteration on a deleted event that FileBegin started.
SyncDeleteEnd(t, ok) ==
    /\ workers[t].current # <<>>
    /\ SyncDeleteBody(t, workers[t].current, ok)

\* The document _handle_file_update chunks: a file that extracts to nothing
\* is replaced by a placeholder text.
UpdateDoc(p) == IF fs[p].content = "empty" THEN "placeholder" ELSE fs[p].content

\* _handle_file_update, step 1 and step 2 on the collection rows: delete the
\* rows of every spelling of the path (del_ok is FALSE when the store raises
\* and the error is swallowed), then add the chunks whose add succeeds.
handle_file_update_rows(rows, p, del_ok, added) ==
    LET paths_to_try == {p, abspath(p)}
        kept == IF del_ok THEN {r \in rows : r.path \notin paths_to_try} ELSE rows
    IN AddChunks(kept, "local", p, UpdateDoc(p), added)

\* Whether _handle_file_update returns True
handle_file_update_result(rows_after, p, added) ==
    ~(added = {} \/ GetWherePath(rows_after, p) = {})

\* A created/modified event of the snapshot.
SyncUpdateBody(t, p, del_ok, added) ==
    LET mode == workers[t].mode
        n == NumChunks(UpdateDoc(p))
        rows_after == handle_file_update_rows(collection[mode], p, del_ok, added)
    IN /\ workers[t].pc = "loop"
       /\ workers[t].kind = "sync"
       /\ p \in workers[t].todo
       /\ workers[t].events[p] # "deleted"
       /\ IF ~fs[p].exists
          THEN /\ del_ok /\ added = {}
               /\ workers' = [workers EXCEPT ![t].current = <<>>, ![t].todo = @ \ {p},
                                             ![t].failed_files = @ \cup {p}]
               /\ UNCHANGED <<collection, metadata, indexing_status, embed_calls>>
          ELSE /\ added \subseteq 1..n
               /\ collection' = [collection EXCEPT ![mode] = rows_after]
               /\ embed_calls' = [embed_calls EXCEPT ![t] = @ + n]
               /\ IF handle_file_update_result(rows_after, p, added)
                  THEN /\ metadata' = update_file_metadata(metadata, p, mode, n)
                       /\ indexing_status' =
                             [indexing_status EXCEPT !.indexed_files_this_session = @ \cup {p}]
                       /\ workers' = [workers EXCEPT ![t].current = <<>>, ![t].todo = @ \ {p},
                                                     ![t].synced_files = @ \cup {p},
                                                     ![t].touched = @ \cup {p}]
                  ELSE /\ workers' = [workers EXCEPT ![t].current = <<>>, ![t].todo = @ \ {p},
                                                     ![t].failed_files = @ \cup {p}]
                       /\ UNCHANGED <<metadata, indexing_status>>
       /\ UNCHANGED <<monitor_vars, fs, monitored_folders, sync_queue, budget>>

\* One iteration of the sync loop on a created/modified event, in one step.
SyncUpdate(t, p, del_ok, added) ==
    /\ ~indexing_status.cancel_requested
    /\ workers[t].current = <<>>
    /\ SyncUpdateBody(t, p, del_ok, added)

\* The body of an iteration on a created/modified event that FileBegin started.
SyncUpdateEnd(t, del_ok, added) ==
    /\ workers[t].current # <<>>
    /\ SyncUpdateBody(t, workers[t].current, del_ok, added)

\* A clean-up that marks the processed paths and clears nothing else
sync_queue_after_pass_MarkOnly(sq, mf, synced_files, failed_files, mode) ==
    IF synced_files # {} THEN mark_files_synced(sq, synced_files, mode) ELSE sq

\* A clean-up without the force clear of what is left in the mode's queue
sync_queue_after_pass_NoForceClear(sq, mf, synced_files, failed_files, mode) ==
    LET marked == IF synced_files # {} THEN mark_files_synced(sq, synced_files, mode) ELSE sq
        gone == {p \in failed_files :
                    \E mfp \in get_all_matching_modes(mf, p) : mfp[1] = mode}
    IN [marked EXCEPT ![mode] =
           [x \in (DOMAIN @) \ {abspath(p) : p \in gone} |-> @[x]]]

\* The queues after the pass: processed paths are marked synced, failed
\* paths are removed, and whatever is left in the mode's queue is cleared.
sync_queue_after_pass(sq, mf, synced_files, failed_files, mode) ==
    LET marked == IF synced_files # {} THEN mark_files_synced(sq, synced_files, mode) ELSE sq
        gone == {p \in failed_files :
                    \E mfp \in get_all_matching_modes(mf, p) : mfp[1] = mode}
        removed == [marked EXCEPT ![mode] =
                       [x \in (DOMAIN @) \ {abspath(p) : p \in gone} |-> @[x]]]
    IN IF DOMAIN removed[mode] # {} THEN clear_sync_queue(removed, mode) ELSE removed

\* The paths whose entries the force clear throws away: what is left in the
\* mode's queue once the processed paths are marked and the failed removed.
force_cleared(sq, mf, synced_files, failed_files, mode) ==
    LET gone == {p \in failed_files :
                    \E mfp \in get_all_matching_modes(mf, p) : mfp[1] = mode}
    IN (DOMAIN sq[mode]) \ {abspath(p) : p \in synced_files \cup gone}

\* execute_sync_background after its loop.  final_message names the failures;
\* audit counts the entries dropped by the force clear.
SyncFinish(t) ==
    /\ workers[t].pc = "loop"
    /\ workers[t].kind = "sync"
    /\ workers[t].todo = {}
    /\ sync_queue' = sync_queue_after_pass(sync_queue, monitored_folders,
                                           workers[t].synced_files,
                                           workers[t].failed_files, workers[t].mode)
    /\ indexing_status' = [indexing_status EXCEPT
                              !.is_indexing = FALSE,
                              !.message = IF workers[t].failed_files = {}
                                          THEN "complete" ELSE "complete, failed"]
    /\ audit' = [p \in LocalFiles |->
                    IF p \in force_cleared(sync_queue, monitored_folders,
                                           workers[t].synced_files,
                                           workers[t].failed_files, workers[t].mode)
                    THEN [audit[p] EXCEPT !.forced = @ + 1] ELSE audit[p]]
    /\ workers' = [workers EXCEPT ![t] = IdleThread]
    /\ UNCHANGED <<pending_events, timers, in_flight, stat_cache, now, table_vars, manifest_vars, handling>>
    /\ UNCHANGED <<fs, metadata, collection, monitored_folders, embed_calls, budget>>

(***************************************************************************)
(* POST /api/github/index, run_indexing and index_github_repository for    *)
(* one mode.                                                               *)
(***************************************************************************)
github_index_repo(mode) ==
    /\ HasFreeThread
    /\ workers' = [workers EXCEPT ![FreeThread] =
                      [IdleThread EXCEPT !.pc = "start", !.kind = "repo", !.mode = mode,
                                         !.folders = {RepoDir}]]
    /\ embed_calls' = [embed_calls EXCEPT ![FreeThread] = 0]
    /\ UNCHANGED <<monitor_vars, fs, metadata, collection, indexing_status, monitored_folders, sync_queue>>

\* index_github_repository up to its file loop
RepoStart(t) ==
    /\ workers[t].pc = "start"
    /\ workers[t].kind = "repo"
    /\ indexing_status' = [indexing_status EXCEPT !.is_indexing = TRUE,
                                                  !.message = "running"]
    /\ workers' = [workers EXCEPT ![t].pc = "loop",
                                  ![t].todo = {p \in {RepoFile} : fs[p].exists}]
    /\ UNCHANGED <<monitor_vars, fs, metadata, collection, monitored_folders, sync_queue, embed_calls, budget>>

\* One iteration of the repository file loop; a chunk whose add raises is
\* logged and the loop goes on.
RepoIndexFile(t, p, added) ==
    LET mode == workers[t].mode
        content == IF fs[p].exists THEN fs[p].content ELSE "empty"
        n == NumChunks(content)
    IN /\ workers[t].pc = "loop"
       /\ workers[t].kind = "repo"
       /\ ~indexing_status.cancel_requested
       /\ p \in workers[t].todo
       /\ IF TextLength(content) < MIN_CONTENT_LENGTH \/ n = 0
          THEN /\ added = {}
               /\ workers' = [workers EXCEPT ![t].todo = @ \ {p}]
               /\ UNCHANGED <<collection, indexing_status, embed_calls>>
          ELSE /\ added \subseteq 1..n
               /\ collection' = [collection EXCEPT ![mode] =
                                    AddChunks(@, "gh", p, content, added)]
               /\ indexing_status' =
                     [indexing_status EXCEPT !.indexed_files_this_session = @ \cup {p}]
               /\ embed_calls' = [embed_calls EXCEPT ![t] = @ + n]
               /\ workers' = [workers EXCEPT ![t].todo = @ \ {p},
                                             ![t].touched = @ \cup {p}]
       /\ UNCHANGED <<monitor_vars, fs, metadata, monitored_folders, sync_queue, budget>>

\* index_github_repository after its loop, and the end of run_indexing
RepoFinish(t) ==
    /\ workers[t].pc = "loop"
    /\ workers[t].kind = "repo"
    /\ workers[t].todo = {}
    /\ indexing_status' = [indexing_status EXCEPT !.is_indexing = FALSE,
                                                  !.message = "complete"]
    /\ workers' = [workers EXCEPT ![t] = IdleThread]
    /\ UNCHANGED <<monitor_vars, fs, metadata, collection, monitored_folders, sync_queue, embed_calls, budget>>

\* except Exception of index_github_repository: the error is reported,
\* nothing is rolled back.
RepoExcept(t) ==
    /\ workers[t].pc = "except"
    /\ workers[t].kind = "repo"
    /\ indexing_status' = [indexing_status EXCEPT !.is_indexing = FALSE,
                                                  !.message = "error"]
    /\ workers' = [workers EXCEPT ![t] = IdleThread]
    /\ UNCHANGED <<monitor_vars, fs, metadata, collection, monitored_folders, sync_queue, embed_calls, budget>>

(***************************************************************************)
(* SyncTracker.handle_file_event called with a canonical event.            *)
(***************************************************************************)
RecordEvent(p, event_type) ==
    /\ \E last \in LastFolders(monitored_folders, p) :
          sync_queue' = handle_file_event(sync_queue, monitored_folders, metadata,
                                          stat_cache, now, p, event_type, last)
    /\ stat_cache' = stat_cache_after(monitored_folders, metadata, stat_cache, now,
                                      p, event_type)
    /\ <<sync_queue, stat_cache>>' # <<sync_queue, stat_cache>>
    /\ UNCHANGED <<pending_events, timers, in_flight, now, audit, table_vars, manifest_vars, handling>>
    /\ UNCHANGED <<fs, metadata, collection, indexing_status, workers,
                   monitored_folders, embed_calls>>

(***************************************************************************)
(* The engine: request handlers, background threads, file changes and      *)
(* canonical events.                                                       *)
(***************************************************************************)
IdleStatus ==
    [is_indexing |-> FALSE, cancel_requested |-> FALSE,
     indexed_files_this_session |-> {}, message |-> "ready"]

\* A ModeRecord as update_file_metadata writes it for an existing file
ModeRecordOf(content, mtime) ==
    [file_hash |-> content, last_modified |-> mtime,
     file_size |-> FileSize(content), num_chunks |-> NumChunks(content)]

\* The files on disk when the process starts.
InitFiles ==
    [p \in AllFiles |->
        CASE p = File1 -> [exists |-> TRUE, content |-> "v1", mtime |-> 0]
          [] p = File2 -> [exists |-> TRUE, content |-> "v2", mtime |-> 0]
          [] p = RepoFile -> [exists |-> TRUE, content |-> "v1", mtime |-> 0]
          [] OTHER -> NoFile]

NoneSpent == [runs |-> 0, changes |-> 0, events |-> 0, clears |-> 0, raw |-> 0]

\* The monitor right after RealtimeMonitor and SyncTracker are constructed:
\* nothing buffered, no timer, an empty _stat_cache.
NoAudit == [accepted |-> 0, covered |-> 0, windows |-> 0, delivered |-> 0, forced |-> 0]

\* No file_metadata.json yet, and save_metadata is the method of the class.
NoMetadataFile == [exists |-> FALSE, table |-> <<>>]

SaveMethod == [bound |-> "method", aliased |-> FALSE, migrated |-> <<>>]

NotClassified == [mode |-> NoMode, files_to_index |-> {}, files_to_skip |-> {}]

NoOp == [op |-> "none", path |-> <<>>, mode |-> NoMode, before |-> <<>>]

\* No repository cloned, an empty manifest, nothing scanned.
NoLimit == [given |-> FALSE, mb |-> 0]

NoRepo == [exists |-> FALSE, tree |-> <<>>, custom_excludes |-> {}, max_size_mb |-> NoLimit]

NoChanges == [done |-> FALSE, current_files |-> {}, added |-> {}, modified |-> {}, removed |-> {}]

NoneAccepted == [done |-> FALSE, files |-> {}]

ManifestInit ==
    /\ repo = NoRepo
    /\ manifest_data = [files |-> <<>>]
    /\ changes = NoChanges
    /\ accepted = NoneAccepted

TableInit ==
    /\ metadata_file = NoMetadataFile
    /\ save_metadata = SaveMethod
    /\ classified = NotClassified
    /\ last_op = NoOp

MonitorInit ==
    /\ TableInit
    /\ ManifestInit
    /\ pending_events = <<>>
    /\ timers = {}
    /\ in_flight = [p \in LocalFiles |-> <<>>]
    /\ stat_cache = <<>>
    /\ now = 0
    /\ audit = [p \in LocalFiles |-> NoAudit]
    /\ handling = {}

\* The process starts on a fresh installation, or on the data a previous
\* session left: File2 indexed in pinpoint mode, its folder monitored again
\* by setup_initial_monitoring.
Init ==
    /\ fs = InitFiles
    /\ \/ /\ metadata = <<>>
          /\ collection = [m \in Modes |-> {}]
          /\ monitored_folders = [m \in Modes |-> {}]
       \/ /\ metadata = (File2 :> [modes |-> ("pinpoint" :> ModeRecordOf("v2", 0))])
          /\ collection = [m \in Modes |->
                              IF m = "pinpoint" THEN ChunksOf("local", File2, "v2") ELSE {}]
          /\ monitored_folders = [m \in Modes |->
                                     IF m = "pinpoint" THEN {dirname(File2)} ELSE {}]
    /\ indexing_status = IdleStatus
    /\ workers = [t \in Threads |-> IdleThread]
    /\ sync_queue = [m \in Modes |-> <<>>]
    /\ embed_calls = [t \in Threads |-> 0]
    /\ budget = NoneSpent
    /\ MonitorInit

MaxRuns == 2
MaxChanges == 1
MaxEvents == 1

\* One more run, file change or event, while the bound allows it.
Spend(what, max) ==
    /\ budget[what] < max
    /\ budget' = [budget EXCEPT ![what] = @ + 1]

EngineFiles == {File1, File2}
EngineContents == {"v1", "v2"}

Next ==
    \/ \E c \in EngineContents : WriteFile(File2, c, 0) /\ Spend("changes", MaxChanges)
    \/ DeleteFile(File2) /\ Spend("changes", MaxChanges)
    \/ \E e \in EventTypes : RecordEvent(File2, e) /\ Spend("events", MaxEvents)
    \/ \E m \in Modes : index_folders({FolderA}, m) /\ Spend("runs", MaxRuns)
    \/ \E m \in Modes : execute_sync(m) /\ Spend("runs", MaxRuns)
    \/ \E m \in Modes : github_index_repo(m) /\ Spend("runs", MaxRuns)
    \/ cancel_indexing
    \/ \E t \in Threads : IndexStart(t)
    \/ \E t \in Threads, p \in EngineFiles, k \in 0..2 : IndexFile(t, p, k)
    \/ \E t \in Threads : LoopCancelled(t)
    \/ \E t \in Threads : IndexFinish(t)
    \/ \E t \in Threads : RunExcept(t)
    \/ \E t \in Threads : SyncStart(t)
    \/ \E t \in Threads, p \in EngineFiles, ok \in BOOLEAN : SyncDelete(t, p, ok)
    \/ \E t \in Threads, p \in EngineFiles, d \in BOOLEAN, a \in SUBSET (1..2) :
          SyncUpdate(t, p, d, a)
    \/ \E t \in Threads : SyncFinish(t)
    \/ \E t \in Threads : RepoStart(t)
    \/ \E t \in Threads, a \in SUBSET (1..2) : RepoIndexFile(t, RepoFile, a)
    \/ \E t \in Threads : RepoFinish(t)
    \/ \E t \in Threads : RepoExcept(t)

Spec == Init /\ [][Next]_vars

(***************************************************************************)
(* Properties of the engine, checked under Spec.                           *)
(***************************************************************************)

\* C1 (as claimed): at most one run is active at a time; a run request that
\* arrives while another run is accepted and not yet finished starts no
\* worker.  A run is active from the request that starts its thread until
\* the thread is back to idle.
C1_SingleFlight ==
    Cardinality({t \in Threads : workers[t].pc # "idle"}) <= 1

\* C2 (as claimed): when a cancelled full-index run ends, the collection of
\* its mode holds no row for any path the run completed, and the table holds
\* no FileRecord for a completed path that had none when the run started.
\* The run ends as cancelled when its except clause finds the cancel flag set.
C2_CancelRollback ==
    [][\A t \in Threads :
          ( /\ workers[t].pc = "except"
            /\ workers[t].kind = "index"
            /\ indexing_status.cancel_requested
            /\ workers'[t].pc = "idle" )
          => \A p \in workers[t].touched :
                /\ GetWherePath(collection'[workers[t].mode], p) = {}
                /\ p \notin workers[t].prior => p \notin DOMAIN metadata']_vars

\* C3 (as claimed): the rollback of a cancelled run in mode M leaves the
\* ModeRecord a touched path has in another mode present and unchanged.
C3_ModeScopedRollback ==
    [][\A t \in Threads :
          ( /\ workers[t].pc = "except"
            /\ workers[t].kind \in {"index", "sync"}
            /\ indexing_status.cancel_requested
            /\ workers'[t].pc = "idle" )
          => \A p \in workers[t].touched, m \in Modes \ {workers[t].mode} :
                has_file_in_mode(metadata, p, m)
                   => /\ has_file_in_mode(metadata', p, m)
                      /\ metadata'[p].modes[m] = metadata[p].modes[m]]_vars

\* C4 (as claimed): the rollback of a cancelled run changes rows and records
\* only of paths that run itself added to the session list; the rows and the
\* FileRecord of every other path are what they were before the rollback.
C4_SessionScopedRollback ==
    [][\A t \in Threads :
          ( /\ workers[t].pc = "except"
            /\ workers[t].kind \in {"index", "sync"}
            /\ indexing_status.cancel_requested
            /\ workers'[t].pc = "idle" )
          => \A p \in AllFiles \ workers[t].touched :
                /\ \A m \in Modes :
                      GetWherePath(collection'[m], p) = GetWherePath(collection[m], p)
                /\ (p \in DOMAIN metadata) = (p \in DOMAIN metadata')
                /\ p \in DOMAIN metadata => metadata'[p] = metadata[p]]_vars

\* C5: when the except clause of a run is reached with the cancel flag
\* clear, it rolls nothing back: the step that ends the run leaves every
\* collection and the whole table as they were, reports the error and clears
\* is_indexing.
C5_NoRollbackOnError ==
    [][\A t \in Threads :
          ( /\ workers[t].pc = "except"
            /\ ~indexing_status.cancel_requested
            /\ workers'[t].pc = "idle" )
          => /\ collection' = collection
             /\ metadata' = metadata
             /\ ~indexing_status'.is_indexing
             /\ indexing_status'.message = "error"]_vars

\* C5 witness: a run has ended with an error while the rows and the record of
\* a file it had completed are still there.
C5_Witness ==
    /\ indexing_status.message = "error"
    /\ ~indexing_status.is_indexing
    /\ \A t \in Threads : workers[t].pc = "idle"
    /\ \E p \in indexing_status.indexed_files_this_session, m \in Modes :
          /\ GetWherePath(collection[m], p) # {}
          /\ has_file_in_mode(metadata, p, m)

\* C6: the step of a sync pass that processes a deleted event for path p in
\* mode M leaves no row of p in the mode-M collection and no ModeRecord for
\* (p, M), and keeps the ModeRecord p has in another mode as it was.
C6_DeletionRoundTrip ==
    [][\A t \in Threads, p \in AllFiles :
          ( /\ workers[t].kind = "sync"
            /\ p \in workers[t].todo
            /\ workers[t].events[p] = "deleted"
            /\ p \in workers'[t].synced_files )
          => /\ GetWherePath(collection'[workers[t].mode], p) = {}
             /\ ~has_file_in_mode(metadata', p, workers[t].mode)
             /\ \A m \in Modes \ {workers[t].mode} :
                   has_file_in_mode(metadata, p, m)
                      => /\ has_file_in_mode(metadata', p, m)
                         /\ metadata'[p].modes[m] = metadata[p].modes[m]]_vars

\* C6 witness: a sync pass has processed a deleted event for a path that was
\* indexed in both modes; its record in the other mode is still there.
C6_Witness ==
    \E t \in Threads, p \in AllFiles :
        /\ workers[t].kind = "sync"
        /\ p \in workers[t].synced_files
        /\ workers[t].events[p] = "deleted"
        /\ GetWherePath(collection[workers[t].mode], p) = {}
        /\ ~has_file_in_mode(metadata, p, workers[t].mode)
        /\ \E m \in Modes \ {workers[t].mode} : has_file_in_mode(metadata, p, m)

\* C7 (as claimed): after a sync pass has successfully processed a
\* created/modified event for path p, the rows of p in the mode's collection
\* are exactly the chunks of the current content of p.
C7_DeleteThenReindex ==
    [][\A t \in Threads, p \in AllFiles :
          ( /\ workers[t].kind = "sync"
            /\ p \in workers[t].todo
            /\ workers[t].events[p] # "deleted"
            /\ p \in workers'[t].synced_files )
          => GetWherePath(collection'[workers[t].mode], p)
                = ChunksOf("local", p, UpdateDoc(p))]_vars

(***************************************************************************)
(* Idempotence of the full index: the files of FolderA are drawn at the    *)
(* start, nothing changes them and no embedding or store call fails; the   *)
(* same folder is indexed twice in the same mode, one pass after the       *)
(* other.                                                                  *)
(***************************************************************************)
IdemMode == "gist"

\* A file as it may be found on disk
FileStates ==
    {NoFile} \cup [exists : {TRUE}, content : Contents, mtime : Times]

InitIdem ==
    /\ fs \in {f \in [AllFiles -> FileStates] :
                  /\ f[FileLog] = NoFile
                  /\ f[RepoFile] = InitFiles[RepoFile]}
    /\ metadata = <<>>
    /\ collection = [m \in Modes |-> {}]
    /\ monitored_folders = [m \in Modes |-> {}]
    /\ indexing_status = IdleStatus
    /\ workers = [t \in Threads |-> IdleThread]
    /\ sync_queue = [m \in Modes |-> <<>>]
    /\ embed_calls = [t \in Threads |-> 0]
    /\ budget = NoneSpent
    /\ MonitorInit

Passes == 2

NextIdem ==
    \/ /\ \A t \in Threads : workers[t].pc = "idle"
       /\ index_folders({FolderA}, IdemMode)
       /\ Spend("runs", Passes)
    \/ \E t \in Threads : IndexStart(t)
    \/ \E t \in Threads, p \in EngineFiles : IndexFile(t, p, NumChunks(fs[p].content))
    \/ \E t \in Threads : IndexFinish(t)

SpecIdem == InitIdem /\ [][NextIdem]_vars

\* C8: on the second pass over an unchanged folder in the same mode no
\* embedding is computed and nothing is stored again; classify puts in
\* needsIndex only files that have no record, which are the files the first
\* pass skipped for lack of content, and the rows of every file are exactly
\* the chunks the first pass stored.
C8_Idempotence ==
    budget.runs > 1 =>
        /\ \A t \in Threads : embed_calls[t] = 0
        /\ \A t \in Threads : \A p \in workers[t].files_to_index :
              ~has_file_in_mode(metadata, p, IdemMode)
        /\ \A p \in EngineFiles :
              GetWherePath(collection[IdemMode], p) =
                 IF has_file_in_mode(metadata, p, IdemMode)
                 THEN ChunksOf("local", p, fs[p].content) ELSE {}

\* C8 witness: the second pass is over and a file indexed by the first pass
\* still has its record and its rows.
C8_Witness ==
    /\ budget.runs > 1
    /\ \A t \in Threads : workers[t].pc = "idle"
    /\ indexing_status.message \in {"uptodate", "complete"}
    /\ \E p \in EngineFiles :
          /\ has_file_in_mode(metadata, p, IdemMode)
          /\ GetWherePath(collection[IdemMode], p) # {}

\* C8 (as claimed): on the second pass classify returns every enumerated
\* file as canSkip, so the run has nothing to index.
C8_AllSkip ==
    budget.runs > 1 => \A t \in Threads : workers[t].files_to_index = {}

(***************************************************************************)
(* The queue on its own: SyncTracker driven by the monitor, the sync       *)
(* endpoints and file changes, over the table and the folders an earlier   *)
(* session left.                                                           *)
(***************************************************************************)
\* SyncTracker.add_monitored_folder
add_monitored_folder(f, mode) ==
    /\ abspath(f) \notin monitored_folders[mode]
    /\ monitored_folders' = [monitored_folders EXCEPT ![mode] = @ \cup {abspath(f)}]
    /\ UNCHANGED <<monitor_vars, fs, metadata, collection, indexing_status, workers,
                   sync_queue, embed_calls, budget>>

\* SyncTracker.remove_monitored_folder: the pending events recorded for the
\* folder go with it.
remove_monitored_folder(f, mode) ==
    /\ abspath(f) \in monitored_folders[mode]
    /\ monitored_folders' = [monitored_folders EXCEPT ![mode] = @ \ {abspath(f)}]
    /\ sync_queue' = [sync_queue EXCEPT ![mode] =
                         [x \in {y \in DOMAIN @ : @[y].folder_path # abspath(f)} |-> @[x]]]
    /\ UNCHANGED <<monitor_vars, fs, metadata, collection, indexing_status, workers,
                   embed_calls, budget>>

\* mark_files_synced called with paths of which one at least is queued
MarkSynced(file_paths, mode) ==
    /\ sync_queue' = mark_files_synced(sync_queue, file_paths, mode)
    /\ sync_queue' # sync_queue
    /\ UNCHANGED <<monitor_vars, fs, metadata, collection, indexing_status, workers,
                   monitored_folders, embed_calls>>

\* POST /api/sync/clear on a queue that is not empty
ClearQueue(mode) ==
    /\ sync_queue' = clear_sync_queue(sync_queue, mode)
    /\ sync_queue' # sync_queue
    /\ UNCHANGED <<monitor_vars, fs, metadata, collection, indexing_status, workers,
                   monitored_folders, embed_calls>>

\* The tables a previous session may have left for File2
QueueTables ==
    {<<>>,
     (File2 :> [modes |-> ("pinpoint" :> ModeRecordOf("v2", 0))]),
     (File2 :> [modes |-> [m \in Modes |-> ModeRecordOf("v2", 0)]])}

InitQueue ==
    /\ fs = [InitFiles EXCEPT ![FileLog] = [exists |-> TRUE, content |-> "v1", mtime |-> 0]]
    /\ metadata \in QueueTables
    /\ collection = [m \in Modes |-> {}]
    /\ monitored_folders = [m \in Modes |-> {}]
    /\ indexing_status = IdleStatus
    /\ workers = [t \in Threads |-> IdleThread]
    /\ sync_queue = [m \in Modes |-> <<>>]
    /\ embed_calls = [t \in Threads |-> 0]
    /\ budget = NoneSpent
    /\ MonitorInit

MaxClears == 1
QueueContents == {"v1", "v2"}

NextQueue ==
    \/ \E f \in Folders, m \in Modes : add_monitored_folder(f, m)
    \/ \E f \in Folders, m \in Modes : remove_monitored_folder(f, m)
    \/ \E p \in LocalFiles, e \in EventTypes :
          RecordEvent(p, e) /\ Spend("events", MaxEvents)
    \/ \E ps \in SUBSET EngineFiles, m \in Modes :
          MarkSynced(ps, m) /\ Spend("clears", MaxClears)
    \/ \E m \in Modes : ClearQueue(m) /\ Spend("clears", MaxClears)
    \/ \E c \in QueueContents : WriteFile(File2, c, MaxTime) /\ Spend("changes", MaxChanges)
    \/ DeleteFile(File2) /\ Spend("changes", MaxChanges)

SpecQueue == InitQueue /\ [][NextQueue]_vars

\* C9: in every queue state and for distinct modes A and B, clear(A) and
\* markSynced(paths, A) leave the queue of B as it is: same paths, same
\* events.
C9_QueueIsolation ==
    \A A \in Modes : \A B \in Modes \ {A} :
        /\ clear_sync_queue(sync_queue, A)[B] = sync_queue[B]
        /\ \A ps \in SUBSET LocalFiles :
              mark_files_synced(sync_queue, ps, A)[B] = sync_queue[B]

\* C9 witness: the queue of one mode has been cleared or marked synced
\* while the queue of the other mode holds an event, and still holds it.
C9_Witness ==
    /\ budget.clears > 0
    /\ \E A \in Modes : \E B \in Modes \ {A} :
          /\ DOMAIN sync_queue[A] = {}
          /\ DOMAIN sync_queue[B] # {}

\* C10: a deleted event for a path whose file name is not one of the ignored
\* names is enqueued, or overwrites the pending event, in the queue of every
\* mode that monitors an ancestor of the path, whatever the table records for
\* the path.
C10_DeletedFanOut ==
    \A p \in LocalFiles : \A last \in LastFolders(monitored_folders, p) :
        LET after == handle_file_event(sync_queue, monitored_folders, metadata,
                                       stat_cache, now, p, "deleted", last)
        IN \A m \in Modes :
              ( /\ \E f \in monitored_folders[m] : IsUnder(p, f)
                /\ ~should_ignore_file(p) )
              => /\ p \in DOMAIN after[m]
                 /\ after[m][p].event_type = "deleted"

\* C10 witness: a deleted event is pending in both modes for a file the
\* table still records as unchanged.
C10_Witness ==
    \E p \in LocalFiles :
        /\ \A m \in Modes :
              /\ p \in DOMAIN sync_queue[m]
              /\ sync_queue[m][p].event_type = "deleted"
        /\ \E m \in Modes : is_file_unchanged(metadata, p, m)

\* C10 (as claimed): a deleted event is enqueued in the queue of every mode
\* that monitors an ancestor of the path, for every path.
C10_EveryPath ==
    \A p \in LocalFiles : \A last \in LastFolders(monitored_folders, p) :
        LET after == handle_file_event(sync_queue, monitored_folders, metadata,
                                       stat_cache, now, p, "deleted", last)
        IN \A m \in Modes :
              (\E f \in monitored_folders[m] : IsUnder(p, f))
              => /\ p \in DOMAIN after[m]
                 /\ after[m][p].event_type = "deleted"

(***************************************************************************)
(* RealtimeMonitor: FileFinderEventHandler buffers the raw watchdog events *)
(* of a path, a threading.Timer started by the first buffered event fires  *)
(* debounce_time later, reduces the buffer to one final event type and     *)
(* hands it to SyncTracker.handle_file_event outside the lock.             *)
(***************************************************************************)
\* FileFinderEventHandler.debounce_time: 0.5 seconds, in ticks.
debounce_time == 1

NoPath == <<>>

\* os.path.splitext(...)[1] / the endswith tests, on the names of the model
Extension(p) ==
    CASE basename(p) = "f1.txt" -> ".txt"
      [] basename(p) = "f2.py" -> ".py"
      [] basename(p) = "app.log" -> ".log"
      [] OTHER -> ""

\* The extensions _determine_final_event_type treats as Office files.
OfficeExtensions == {".docx", ".xlsx", ".pptx", ".doc", ".xls", ".ppt", ".txt"}

is_office_file(p) == Extension(p) \in OfficeExtensions

\* FileFinderEventHandler._should_ignore_file: the handler's own pattern list
\* ('.log' is one of its patterns).
handler_should_ignore_file(p) == Extension(p) \in {".log"}

\* The watchdog events the observer delivers for files: a type, the source
\* path and, for a move, the destination path.
RawTypes == {"created", "modified", "deleted", "closed"}

RawEvents ==
    [event_type : RawTypes, src_path : LocalFiles, dest_path : {NoPath},
     is_directory : {FALSE}]
    \cup {ev \in [event_type : {"moved"}, src_path : LocalFiles,
                  dest_path : LocalFiles, is_directory : {FALSE}] :
             ev.src_path # ev.dest_path}

\* _get_reliable_event_type; "none" stands for None.
get_reliable_event_type(ev) ==
    CASE ev.event_type = "deleted" -> "deleted"
      [] ev.event_type = "created" -> "created"
      [] ev.event_type = "modified" ->
            IF ~exists(ev.src_path) THEN "deleted" ELSE "modified"
      [] ev.event_type = "moved" -> "moved"
      [] OTHER -> "none"

\* The handler's state as one record.
MonitorState ==
    [pending_events |-> pending_events, timers |-> timers,
     in_flight |-> in_flight, audit |-> audit]

\* _add_pending_event at time t: append under the lock; the first event of a
\* buffer starts the timer.  'timestamp' grows with the arrival order, so the
\* buffer is kept in arrival order.
add_pending_event(mon, t, p, event_type) ==
    LET old == IF p \in DOMAIN mon.pending_events THEN mon.pending_events[p] ELSE <<>>
        buf == Append(old, event_type)
    IN [mon EXCEPT
          !.pending_events = [x \in (DOMAIN @) \cup {p} |-> IF x = p THEN buf ELSE @[x]],
          !.timers = IF Len(buf) = 1
                     THEN @ \cup {[path |-> p, deadline |-> t + debounce_time]}
                     ELSE @,
          !.audit[p].accepted = @ + 1]

\* _handle_moved_file
handle_moved_file(mon, t, src_path, dest_path) ==
    add_pending_event(add_pending_event(mon, t, src_path, "deleted"),
                      t, dest_path, "created")

\* on_any_event on the handler's state.
on_any_event(mon, t, ev) ==
    IF ev.is_directory THEN mon
    ELSE IF handler_should_ignore_file(ev.src_path) THEN mon
    ELSE IF get_reliable_event_type(ev) = "none" THEN mon
    ELSE IF ev.dest_path # NoPath
         THEN handle_moved_file(mon, t, ev.src_path, ev.dest_path)
    ELSE add_pending_event(mon, t, ev.src_path, get_reliable_event_type(ev))

Has(events, event_type) == \E i \in 1..Len(events) : events[i] = event_type

\* A reduction that applies the general rule to every extension
determine_final_event_type_General(events, p) ==
    IF Has(events, "deleted") /\ exists(p) THEN "modified"
    ELSE IF Has(events, "deleted") THEN "deleted"
    ELSE IF Has(events, "created") THEN "created"
    ELSE IF Has(events, "modified") THEN "modified"
    ELSE events[Len(events)]

\* A reduction that reports a buffered deleted event as deleted even when the
\* file is back on disk
determine_final_event_type_NoExistsTest(events, p) ==
    IF Has(events, "deleted") THEN "deleted"
    ELSE IF Has(events, "created") THEN "created"
    ELSE IF Has(events, "modified") THEN "modified"
    ELSE events[Len(events)]

\* _determine_final_event_type: the Office branch first, then the general rule.
determine_final_event_type(events, p) ==
    IF is_office_file(p) /\ Has(events, "deleted") /\ exists(p) THEN "modified"
    ELSE IF is_office_file(p) /\ Has(events, "deleted") /\ ~exists(p) THEN "deleted"
    ELSE IF is_office_file(p) /\ Has(events, "created") /\ exists(p) THEN "modified"
    ELSE IF Has(events, "deleted") /\ exists(p) THEN "modified"
    ELSE IF Has(events, "deleted") /\ ~exists(p) THEN "deleted"
    ELSE IF Has(events, "created") THEN "created"
    ELSE IF Has(events, "modified") THEN "modified"
    ELSE events[Len(events)]

\* A timer callback that reduces the buffer and leaves it in place
process_pending_events_KeepBuffer(mon, p) ==
    IF p \notin DOMAIN mon.pending_events THEN mon
    ELSE LET events == mon.pending_events[p]
             final == [type |-> determine_final_event_type(events, p),
                       events |-> events, existed |-> exists(p)]
         IN [mon EXCEPT !.in_flight[p] = Append(@, final),
                        !.audit[p].covered = @ + Len(events),
                        !.audit[p].windows = @ + 1]

\* _process_pending_events up to the release of the lock: reduce the buffer
\* to its final event type and delete it.  The final event is remembered
\* with the buffer it came from and what os.path.exists returned.
process_pending_events(mon, p) ==
    IF p \notin DOMAIN mon.pending_events THEN mon
    ELSE LET events == mon.pending_events[p]
             final == [type |-> determine_final_event_type(events, p),
                       events |-> events, existed |-> exists(p)]
         IN [mon EXCEPT !.pending_events = DropKey(@, p),
                        !.in_flight[p] = Append(@, final),
                        !.audit[p].covered = @ + Len(events),
                        !.audit[p].windows = @ + 1]

SetMonitor(mon) ==
    /\ pending_events' = mon.pending_events
    /\ timers' = mon.timers
    /\ in_flight' = mon.in_flight
    /\ audit' = mon.audit

RemoveAt(seq, i) == [j \in 1..(Len(seq) - 1) |-> IF j < i THEN seq[j] ELSE seq[j + 1]]

\* The observer thread delivers a raw event.
OnAnyEvent(ev) ==
    /\ on_any_event(MonitorState, now, ev) # MonitorState
    /\ SetMonitor(on_any_event(MonitorState, now, ev))
    /\ UNCHANGED <<stat_cache, now, table_vars, manifest_vars, handling>>
    /\ UNCHANGED <<fs, metadata, collection, indexing_status, workers,
                   monitored_folders, sync_queue, embed_calls>>

\* A timer runs its callback, debounce_time after it was started or later.
TimerFires(tm) ==
    /\ tm \in timers
    /\ now >= tm.deadline
    /\ SetMonitor(process_pending_events([MonitorState EXCEPT !.timers = @ \ {tm}],
                                         tm.path))
    /\ UNCHANGED <<stat_cache, now, table_vars, manifest_vars, handling>>
    /\ UNCHANGED <<fs, metadata, collection, indexing_status, workers,
                   monitored_folders, sync_queue, embed_calls, budget>>

\* The rest of a timer callback: the final event of p that was determined
\* i-th among those still waiting reaches SyncTracker.handle_file_event.
Dispatch(p, i) ==
    /\ i \in 1..Len(in_flight[p])
    /\ \E last \in LastFolders(monitored_folders, p) :
          sync_queue' = handle_file_event(sync_queue, monitored_folders, metadata,
                                          stat_cache, now, p, in_flight[p][i].type, last)
    /\ stat_cache' = stat_cache_after(monitored_folders, metadata, stat_cache, now,
                                      p, in_flight[p][i].type)
    /\ in_flight' = [in_flight EXCEPT ![p] = RemoveAt(@, i)]
    /\ audit' = [audit EXCEPT ![p].delivered = @ + 1]
    /\ UNCHANGED <<pending_events, timers, now, table_vars, manifest_vars, handling>>
    /\ UNCHANGED <<fs, metadata, collection, indexing_status, workers,
                   monitored_folders, embed_calls, budget>>

MaxClock == 5

\* Time passes while a timer or a _stat_cache entry is there to notice it.
Tick ==
    /\ now < MaxClock
    /\ \/ \E tm \in timers : now < tm.deadline
       \/ \E p \in DOMAIN stat_cache : cache_is_fresh(stat_cache, now, p)
    /\ now' = now + 1
    /\ UNCHANGED <<pending_events, timers, in_flight, stat_cache, audit, table_vars, manifest_vars, handling>>
    /\ UNCHANGED <<fs, metadata, collection, indexing_status, workers,
                   monitored_folders, sync_queue, embed_calls, budget>>

\* The monitor watches /a for gist and /a/s for pinpoint; File2 was indexed in
\* pinpoint mode by an earlier session and is on disk unchanged, or has been
\* deleted since.
InitMonitor ==
    /\ fs \in {[InitFiles EXCEPT ![FileLog] = [exists |-> TRUE, content |-> "v1", mtime |-> 0]],
               [InitFiles EXCEPT ![File2] = NoFile]}
    /\ metadata = (File2 :> [modes |-> ("pinpoint" :> ModeRecordOf("v2", 0))])
    /\ collection = [m \in Modes |-> {}]
    /\ monitored_folders = [m \in Modes |-> IF m = "gist" THEN {FolderA} ELSE {FolderS}]
    /\ indexing_status = IdleStatus
    /\ workers = [t \in Threads |-> IdleThread]
    /\ sync_queue = [m \in Modes |-> <<>>]
    /\ embed_calls = [t \in Threads |-> 0]
    /\ budget = NoneSpent
    /\ MonitorInit

MaxRaw == 2
MonitorContents == {"v1", "v2"}

NextMonitor ==
    \/ \E ev \in RawEvents : OnAnyEvent(ev) /\ Spend("raw", MaxRaw)
    \/ \E tm \in timers : TimerFires(tm)
    \/ \E p \in LocalFiles, i \in 1..MaxRaw : Dispatch(p, i)
    \/ Tick
    \/ \E c \in MonitorContents : WriteFile(File2, c, 0) /\ Spend("changes", MaxChanges)
    \/ \E p \in EngineFiles : DeleteFile(p) /\ Spend("changes", MaxChanges)

SpecMonitor == InitMonitor /\ [][NextMonitor]_vars

(***************************************************************************)
(* The reduction of one buffer: a debounce window is open with any buffer  *)
(* of up to MaxLen raw event types, the file is on disk or not; the timer  *)
(* fires and the final event is handed over.                               *)
(***************************************************************************)
MaxLen == 3

BufferTypes == {"created", "modified", "deleted"}

Buffers == UNION {[1..n -> BufferTypes] : n \in 1..MaxLen}

InitReduce ==
    /\ \E f1 \in {InitFiles[File1], NoFile}, f2 \in {InitFiles[File2], NoFile} :
          fs = [InitFiles EXCEPT ![File1] = f1, ![File2] = f2]
    /\ metadata = (File2 :> [modes |-> ("pinpoint" :> ModeRecordOf("v2", 0))])
    /\ collection = [m \in Modes |-> {}]
    /\ monitored_folders = [m \in Modes |-> IF m = "gist" THEN {FolderA} ELSE {FolderS}]
    /\ indexing_status = IdleStatus
    /\ workers = [t \in Threads |-> IdleThread]
    /\ sync_queue = [m \in Modes |-> <<>>]
    /\ embed_calls = [t \in Threads |-> 0]
    /\ budget = NoneSpent
    /\ \E p \in EngineFiles, buf \in Buffers :
          /\ pending_events = (p :> buf)
          /\ timers = {[path |-> p, deadline |-> debounce_time]}
          /\ audit = [x \in LocalFiles |->
                         IF x = p THEN [NoAudit EXCEPT !.accepted = Len(buf)] ELSE NoAudit]
    /\ in_flight = [p \in LocalFiles |-> <<>>]
    /\ handling = {}
    /\ stat_cache = <<>>
    /\ now = 0
    /\ TableInit
    /\ ManifestInit

NextReduce ==
    \/ Tick
    \/ \E tm \in timers : TimerFires(tm)
    \/ \E p \in LocalFiles : Dispatch(p, 1)

SpecReduce == InitReduce /\ [][NextReduce]_vars

Matches(p, m) == \E mfp \in get_all_matching_modes(monitored_folders, p) : mfp[1] = m

\* C11: when handle_file_event is called with a created or modified event,
\* then in every mode that monitors the path: if the fast check says the file
\* needs indexing the path is in that mode's queue afterwards with the new
\* event type, and if it says the file does not, the path is not in that
\* mode's queue afterwards.
C11_FastCheckDecides ==
    \A p \in LocalFiles : \A e \in {"created", "modified"} :
        \A last \in LastFolders(monitored_folders, p) :
            LET after == handle_file_event(sync_queue, monitored_folders, metadata,
                                           stat_cache, now, p, e, last)
            IN \A m \in Modes :
                  Matches(p, m) =>
                     IF file_needs_indexing_fast(metadata, stat_cache, now, p, m)
                     THEN /\ p \in DOMAIN after[m]
                          /\ after[m][p].event_type = e
                     ELSE p \notin DOMAIN after[m]

\* C11 witness: two final events of one path have been handled; the path is
\* queued as created or modified in a mode where it needs indexing and is
\* absent from the queue of a mode where the fast check finds it unchanged.
C11_Witness ==
    \E p \in LocalFiles : \E A \in Modes : \E B \in Modes \ {A} :
        /\ audit[p].delivered >= 2
        /\ Matches(p, A) /\ Matches(p, B)
        /\ p \in DOMAIN sync_queue[A]
        /\ sync_queue[A][p].event_type \in {"created", "modified"}
        /\ file_needs_indexing_fast(metadata, stat_cache, now, p, A)
        /\ p \notin DOMAIN sync_queue[B]
        /\ ~file_needs_indexing_fast(metadata, stat_cache, now, p, B)

\* C12: for a file with a stored ModeRecord in a monitoring mode, a created
\* or modified event leaves the file queued when its on-disk size differs
\* from the stored size, or when the size is unchanged and the on-disk mtime
\* is at least 1.0 second from the stored one, and leaves it out of the queue
\* when the size is unchanged and the mtime is less than 1.0 second away.
C12_FastBoundary ==
    \A p \in LocalFiles : \A e \in {"created", "modified"} :
        \A last \in LastFolders(monitored_folders, p) :
            LET after == handle_file_event(sync_queue, monitored_folders, metadata,
                                           stat_cache, now, p, e, last)
            IN \A m \in Modes :
                  (Matches(p, m) /\ has_file_in_mode(metadata, p, m) /\ fs[p].exists) =>
                     LET stored == metadata[p].modes[m]
                         same_size == FileSize(fs[p].content) = stored.file_size
                         moved_on == Abs(fs[p].mtime - stored.last_modified) >= OneSecond
                     IN /\ ~same_size => p \in DOMAIN after[m]
                        /\ (same_size /\ moved_on) => p \in DOMAIN after[m]
                        /\ (same_size /\ ~moved_on) => p \notin DOMAIN after[m]

\* The final events determined and not yet handed over, each with its path.
FinalEvents ==
    UNION {{[path |-> p, final |-> in_flight[p][i]] : i \in 1..Len(in_flight[p])} :
              p \in LocalFiles}

\* C13: a buffer that contains a deleted event is reduced to modified when the
\* file exists as the debounce window fires and to deleted when it does not,
\* whatever else is buffered, in whatever order, for every extension.
C13_DeletedBuffered ==
    \A r \in FinalEvents :
        Has(r.final.events, "deleted") =>
            r.final.type = IF r.final.existed THEN "modified" ELSE "deleted"

\* C13 witness: the buffer created, modified, deleted of a file that is on
\* disk as the window fires was reduced to modified.
C13_Witness ==
    \E r \in FinalEvents :
        /\ r.final.events = <<"created", "modified", "deleted">>
        /\ r.final.existed
        /\ r.final.type = "modified"

\* C14: a buffer without a deleted event is reduced to created if a created
\* event is buffered (to modified instead when the path ends in .docx, .xlsx,
\* .pptx, .doc, .xls, .ppt or .txt and the file exists as the window fires),
\* otherwise to modified if a modified event is buffered, otherwise to the
\* type of the last buffered event.
C14_NoDeleted ==
    \A r \in FinalEvents :
        ~Has(r.final.events, "deleted") =>
            r.final.type =
                IF Has(r.final.events, "created")
                THEN IF is_office_file(r.path) /\ r.final.existed
                     THEN "modified" ELSE "created"
                ELSE IF Has(r.final.events, "modified") THEN "modified"
                ELSE r.final.events[Len(r.final.events)]

\* C14 witness: the buffer modified, created of a .txt file that is on disk
\* as the window fires was reduced to modified.
C14_Witness ==
    \E r \in FinalEvents :
        /\ is_office_file(r.path)
        /\ r.final.events = <<"modified", "created">>
        /\ r.final.existed
        /\ r.final.type = "modified"

\* C14 (as claimed): for every path and extension a buffer without a deleted
\* event is reduced to created if a created event is buffered, otherwise to
\* modified if a modified event is buffered, otherwise to the last type.
C14_EveryExtension ==
    \A r \in FinalEvents :
        ~Has(r.final.events, "deleted") =>
            r.final.type =
                IF Has(r.final.events, "created") THEN "created"
                ELSE IF Has(r.final.events, "modified") THEN "modified"
                ELSE r.final.events[Len(r.final.events)]

Buffered(p) == IF p \in DOMAIN pending_events THEN Len(pending_events[p]) ELSE 0

\* C15: per path, every raw event the handler accepted is either still in
\* the open buffer, whose timer is running, or was counted in exactly one
\* fired window; every fired window produced exactly one final event, which
\* is waiting to be handed over or was handed over once.
C15_OneEventPerWindow ==
    \A p \in LocalFiles :
        /\ audit[p].accepted = audit[p].covered + Buffered(p)
        /\ audit[p].windows = audit[p].delivered + Len(in_flight[p])
        /\ Cardinality({tm \in timers : tm.path = p}) = IF Buffered(p) > 0 THEN 1 ELSE 0
        /\ p \in DOMAIN pending_events => Buffered(p) > 0
        /\ \A i \in 1..Len(in_flight[p]) : Len(in_flight[p][i].events) > 0

\* C15 witness: two raw events of one path were buffered in one window, and
\* its single final event has been handed over.
C15_Witness ==
    \E p \in LocalFiles :
        /\ audit[p].accepted = 2
        /\ audit[p].covered = 2
        /\ audit[p].windows = 1
        /\ audit[p].delivered = 1

LastBuffered(mon, p) ==
    IF p \in DOMAIN mon.pending_events
    THEN mon.pending_events[p][Len(mon.pending_events[p])]
    ELSE "none"

\* C16: a move notification from an old path A to a new path B that lies
\* under a monitored folder and has a name that is not ignored buffers a
\* deleted event under A and a created event under B, each in the buffer of
\* its own path with its own timer.
C16_MoveDecomposes ==
    \A ev \in RawEvents :
        ( /\ ev.event_type = "moved"
          /\ \E m \in Modes : \E f \in monitored_folders[m] : IsUnder(ev.dest_path, f)
          /\ ~handler_should_ignore_file(ev.dest_path)
          /\ ~should_ignore_file(ev.dest_path) )
        => LET after == on_any_event(MonitorState, now, ev)
           IN /\ LastBuffered(after, ev.src_path) = "deleted"
              /\ LastBuffered(after, ev.dest_path) = "created"
              /\ \E tm \in after.timers : tm.path = ev.src_path
              /\ \E tm \in after.timers : tm.path = ev.dest_path

(***************************************************************************)
(* Sync passes next to the monitor: both modes watch /a, canonical events  *)
(* arrive while a pass runs, the user may cancel.  A pass is requested     *)
(* when no other is running; overlapping runs belong to the engine above.  *)
(***************************************************************************)
InitSync ==
    /\ fs = InitFiles
    /\ metadata \in {<<>>, (File2 :> [modes |-> ("pinpoint" :> ModeRecordOf("v2", 0))])}
    /\ collection = [m \in Modes |->
                        IF m = "pinpoint" /\ File2 \in DOMAIN metadata
                        THEN ChunksOf("local", File2, "v2") ELSE {}]
    /\ monitored_folders = [m \in Modes |-> {FolderA}]
    /\ indexing_status = IdleStatus
    /\ workers = [t \in Threads |-> IdleThread]
    /\ sync_queue = [m \in Modes |-> <<>>]
    /\ embed_calls = [t \in Threads |-> 0]
    /\ budget = NoneSpent
    /\ MonitorInit

MaxSyncEvents == 2
MaxPasses == 1

NextSync ==
    \/ \E p \in EngineFiles, e \in EventTypes :
          RecordEvent(p, e) /\ Spend("events", MaxSyncEvents)
    \/ /\ \A t \in Threads : workers[t].pc = "idle"
       /\ \E m \in Modes : execute_sync(m) /\ Spend("runs", MaxPasses)
    \/ cancel_indexing
    \/ \E t \in Threads : SyncStart(t)
    \/ \E t \in Threads, p \in EngineFiles, ok \in BOOLEAN : SyncDelete(t, p, ok)
    \/ \E t \in Threads, p \in EngineFiles, del_ok \in BOOLEAN, added \in SUBSET (1..2) :
          SyncUpdate(t, p, del_ok, added)
    \/ \E t \in Threads : LoopCancelled(t)
    \/ \E t \in Threads : RunExcept(t)
    \/ \E t \in Threads : SyncFinish(t)

SpecSync == InitSync /\ [][NextSync]_vars

\* The step in which thread t completes a sync pass that was not cancelled.
PassCompletes(t) ==
    /\ workers[t].kind = "sync"
    /\ workers[t].pc = "loop"
    /\ workers'[t].pc = "idle"

\* C17: a pass that completes without cancellation has processed every event
\* of its snapshot, failures included; no failed path is among the paths
\* handed to mark_files_synced, and after the step no failed path is in the
\* queue of the pass's mode.
C17_FailuresLeaveQueue ==
    [][\A t \in Threads :
          PassCompletes(t) =>
             /\ workers[t].synced_files \cup workers[t].failed_files
                   = DOMAIN workers[t].events
             /\ workers[t].synced_files \cap workers[t].failed_files = {}
             /\ \A p \in workers[t].failed_files :
                   abspath(p) \notin DOMAIN sync_queue'[workers[t].mode]]_vars

\* C17 witness: a pass has completed in which one path failed and another
\* was indexed, and the queues are empty.
C17_Witness ==
    /\ indexing_status.message = "complete, failed"
    /\ indexing_status.indexed_files_this_session # {}
    /\ \A t \in Threads : workers[t].pc = "idle"
    /\ \E m \in Modes : sync_queue[m] = <<>>

\* C18: the step that completes a sync pass of mode M without cancellation
\* leaves M's queue empty, whatever was recorded in it while the pass ran,
\* and leaves the queue of the other mode as it was.
C18_PassEmptiesItsQueue ==
    [][\A t \in Threads :
          PassCompletes(t) =>
             /\ sync_queue'[workers[t].mode] = <<>>
             /\ \A m \in Modes \ {workers[t].mode} : sync_queue'[m] = sync_queue[m]]_vars

\* C18 witness: a completed pass has thrown away an entry that was recorded
\* while it ran; its mode's queue is empty and the other mode still holds
\* its entries.
C18_Witness ==
    \E p \in LocalFiles : \E A \in Modes : \E B \in Modes \ {A} :
        /\ audit[p].forced >= 1
        /\ indexing_status.message \in {"complete", "complete, failed"}
        /\ \A t \in Threads : workers[t].pc = "idle"
        /\ sync_queue[A] = <<>>
        /\ p \in DOMAIN sync_queue[B]

\* C19: once every run has ended, however it ended, the run status is idle:
\* is_indexing is false, cancel_requested is false and the list of paths
\* touched in the session is empty.
C19_IdleAfterEveryRun ==
    (\A t \in Threads : workers[t].pc = "idle") =>
        /\ ~indexing_status.is_indexing
        /\ ~indexing_status.cancel_requested
        /\ indexing_status.indexed_files_this_session = {}

\* C20: the step that ends a full-index run successfully, with files indexed
\* or with none that needed indexing, leaves every requested folder among
\* the monitored folders of the run's mode.
C20_SuccessRegistersFolders ==
    [][\A t \in Threads :
          ( /\ workers[t].kind = "index"
            /\ workers[t].pc \in {"start", "loop"}
            /\ workers'[t].pc = "idle" )
          => \A f \in workers[t].folders :
                abspath(f) \in monitored_folders'[workers[t].mode]]_vars

(***************************************************************************)
(* The MetadataTracker on its own: the table, its file and every           *)
(* operation that changes them, from each way the table can be loaded.     *)
(***************************************************************************)
FileSib == <<"a", "s2", "f3.txt">>

TablePaths == {File1, File2, FileSib}

\* Pairs of component names of which the first is a proper prefix of the second.
NamePrefixes == {<<"s", "s2">>, <<"a", "app.log">>}

\* str.startswith on two absolute paths
startswith(file, folder) ==
    LET k == Len(folder)
    IN /\ k >= 1
       /\ k <= Len(file)
       /\ SubSeq(file, 1, k - 1) = SubSeq(folder, 1, k - 1)
       /\ \/ file[k] = folder[k]
          \/ <<folder[k], file[k]>> \in NamePrefixes

\* A clearing that leaves a record with no mode in the table
clear_folder_metadata_KeepEmpty(md, folder_path, chunking_mode) ==
    LET inside == {p \in DOMAIN md : startswith(abspath(p), abspath(folder_path))}
        gone == {p \in inside : chunking_mode = NoMode}
    IN [p \in (DOMAIN md) \ gone |->
           IF p \in inside /\ chunking_mode \in DOMAIN md[p].modes
           THEN [modes |-> DropKey(md[p].modes, chunking_mode)]
           ELSE md[p]]

\* clear_folder_metadata: the table after the loop over list(self.metadata.keys())
clear_folder_metadata(md, folder_path, chunking_mode) ==
    LET inside == {p \in DOMAIN md : startswith(abspath(p), abspath(folder_path))}
        gone == {p \in inside :
                    \/ chunking_mode = NoMode
                    \/ /\ chunking_mode \in DOMAIN md[p].modes
                       /\ DOMAIN DropKey(md[p].modes, chunking_mode) = {}}
    IN [p \in (DOMAIN md) \ gone |->
           IF p \in inside /\ chunking_mode \in DOMAIN md[p].modes
           THEN [modes |-> DropKey(md[p].modes, chunking_mode)]
           ELSE md[p]]

\* dict.get(key, default)
Get(d, key, default) == IF key \in DOMAIN d THEN d[key] ELSE default

\* _migrate_metadata_format: an entry without 'modes' is an old-format
\* entry and becomes a one-mode entry.
migrate_metadata_format(loaded_metadata) ==
    [p \in DOMAIN loaded_metadata |->
        LET file_data == loaded_metadata[p]
        IN IF "modes" \in DOMAIN file_data THEN file_data
           ELSE [modes |-> (Get(file_data, "chunking_mode", "gist") :>
                               [file_hash |-> Get(file_data, "file_hash", NoHash),
                                last_modified |-> Get(file_data, "last_modified", 0),
                                file_size |-> Get(file_data, "file_size", 0),
                                num_chunks |-> Get(file_data, "num_chunks", 0)])]]

\* The lambda _migrate_metadata_format binds save_metadata to; while
\* self.metadata is still the dict the lambda captured, aliased is TRUE.
SaveLambda == [bound |-> "lambda", aliased |-> TRUE, migrated |-> <<>>]

\* What a call of save_metadata writes: self.metadata from the method,
\* `migrated or self.metadata` from the lambda.
written_table(sm, md) ==
    IF sm.bound = "lambda"
    THEN LET migrated == IF sm.aliased THEN md ELSE sm.migrated
         IN IF DOMAIN migrated # {} THEN migrated ELSE md
    ELSE md

\* __init__ and load_metadata of a new MetadataTracker over the file f.
load_metadata(f) ==
    IF ~f.exists
    THEN [metadata |-> <<>>, save_metadata |-> SaveMethod, metadata_file |-> f]
    ELSE LET migrated == migrate_metadata_format(f.table)
         IN IF migrated # f.table
            THEN [metadata |-> migrated, save_metadata |-> SaveLambda,
                  metadata_file |-> [exists |-> TRUE, table |-> migrated]]
            ELSE [metadata |-> migrated, save_metadata |-> SaveMethod, metadata_file |-> f]

Save(md) ==
    metadata_file' = [exists |-> TRUE, table |-> written_table(save_metadata', md)]

\* Remembers the call and the table it found.
Called(op, p, mode) ==
    last_op' = [op |-> op, path |-> p, mode |-> mode, before |-> metadata]

engine_vars == <<collection, indexing_status, workers, monitored_folders, sync_queue,
                 embed_calls, pending_events, timers, in_flight, stat_cache, now, audit,
                 manifest_vars, handling>>

TableUpdate(p, mode, num_chunks) ==
    /\ metadata' = update_file_metadata(metadata, p, mode, num_chunks)
    /\ UNCHANGED save_metadata
    /\ Save(metadata')
    /\ Called("update", p, mode)
    /\ UNCHANGED <<fs, classified, engine_vars>>

TableRemove(p, mode) ==
    /\ metadata' = remove_file_metadata(metadata, p, mode)
    /\ UNCHANGED save_metadata
    /\ IF p \in DOMAIN metadata THEN Save(metadata') ELSE UNCHANGED metadata_file
    /\ Called("remove", p, mode)
    /\ UNCHANGED <<fs, classified, engine_vars>>

TableClearFolder(folder_path, mode) ==
    /\ metadata' = clear_folder_metadata(metadata, folder_path, mode)
    /\ UNCHANGED save_metadata
    /\ IF metadata' # metadata THEN Save(metadata') ELSE UNCHANGED metadata_file
    /\ Called("clear_folder", folder_path, mode)
    /\ UNCHANGED <<fs, classified, engine_vars>>

\* clear_all_metadata binds self.metadata to a new dict, which the lambda
\* never sees.
TableClearAll ==
    /\ metadata' = <<>>
    /\ save_metadata' = IF save_metadata.bound = "lambda" /\ save_metadata.aliased
                        THEN [save_metadata EXCEPT !.aliased = FALSE, !.migrated = metadata]
                        ELSE save_metadata
    /\ Save(metadata')
    /\ Called("clear_all", <<>>, NoMode)
    /\ UNCHANGED <<fs, classified, engine_vars>>

\* The process is started again over the file the last one left.
Restart ==
    /\ LET loaded == load_metadata(metadata_file)
       IN /\ metadata' = loaded.metadata
          /\ save_metadata' = loaded.save_metadata
          /\ metadata_file' = loaded.metadata_file
    /\ classified' = NotClassified
    /\ Called("restart", <<>>, NoMode)
    /\ UNCHANGED <<fs, engine_vars>>

Classify(mode) ==
    /\ classified' = [mode |-> mode,
                      files_to_index |-> get_files_to_index(metadata, EngineFiles, mode),
                      files_to_skip |-> get_files_to_skip(metadata, EngineFiles, mode)]
    /\ classified' # classified
    /\ UNCHANGED <<fs, metadata, metadata_file, save_metadata, last_op, budget, engine_vars>>

\* The entries file_metadata.json may hold for a path: written by this
\* version (by mode), or by the version before chunking modes (flat).
StoredRecord(p) == ModeRecordOf("v1", 0)

NewEntries(p) ==
    {[modes |-> [m \in ms |-> StoredRecord(p)]] : ms \in (SUBSET Modes) \ {{}}}

OldEntries(p) ==
    {StoredRecord(p)} \cup
    {[chunking_mode |-> m, file_hash |-> StoredRecord(p).file_hash,
      last_modified |-> StoredRecord(p).last_modified,
      file_size |-> StoredRecord(p).file_size,
      num_chunks |-> StoredRecord(p).num_chunks] : m \in Modes}

EntriesOf(p) == IF p = FileSib THEN {[modes |-> ("gist" :> StoredRecord(p))]}
                ELSE NewEntries(p) \cup OldEntries(p)

MetadataFiles ==
    {NoMetadataFile} \cup
    UNION {{[exists |-> TRUE, table |-> t] :
               t \in {f \in [ps -> UNION {EntriesOf(p) : p \in ps}] :
                         \A p \in ps : f[p] \in EntriesOf(p)}} :
           ps \in (SUBSET TablePaths) \ {{}}}

\* Everything but the files on disk, as a tracker started over one of
\* MetadataFiles finds it.
InitLoaded ==
    /\ \E f \in MetadataFiles :
          LET loaded == load_metadata(f)
          IN /\ metadata = loaded.metadata
             /\ save_metadata = loaded.save_metadata
             /\ metadata_file = loaded.metadata_file
    /\ classified = NotClassified
    /\ last_op = NoOp
    /\ collection = [m \in Modes |-> {}]
    /\ monitored_folders = [m \in Modes |-> {}]
    /\ indexing_status = IdleStatus
    /\ workers = [t \in Threads |-> IdleThread]
    /\ sync_queue = [m \in Modes |-> <<>>]
    /\ embed_calls = [t \in Threads |-> 0]
    /\ budget = NoneSpent
    /\ pending_events = <<>>
    /\ timers = {}
    /\ in_flight = [p \in LocalFiles |-> <<>>]
    /\ stat_cache = <<>>
    /\ now = 0
    /\ audit = [p \in LocalFiles |-> NoAudit]
    /\ handling = {}
    /\ ManifestInit

InitTable ==
    /\ fs = InitFiles
    /\ InitLoaded

MaxOps == 3

AnyMode == Modes \cup {NoMode}

NextTable ==
    \/ \E p \in EngineFiles, m \in Modes : TableUpdate(p, m, 1) /\ Spend("changes", MaxOps)
    \/ \E p \in TablePaths, m \in AnyMode : TableRemove(p, m) /\ Spend("changes", MaxOps)
    \/ \E d \in Folders, m \in AnyMode : TableClearFolder(d, m) /\ Spend("changes", MaxOps)
    \/ TableClearAll /\ Spend("changes", MaxOps)
    \/ Restart /\ Spend("changes", MaxOps)

SpecTable == InitTable /\ [][NextTable]_vars

\* classify on its own: File2 is found in any state, against any table a
\* tracker can have loaded.
InitClassify ==
    /\ \E f2 \in FileStates : fs = [InitFiles EXCEPT ![File2] = f2]
    /\ InitLoaded

NextClassify == \E m \in Modes : Classify(m)

SpecClassify == InitClassify /\ [][NextClassify]_vars

\* C21: after any sequence of update, remove (with and without a mode),
\* clear of a folder (with and without a mode) and clear-all, every
\* FileRecord of the table has at least one ModeRecord; a path whose only
\* ModeRecord a remove or a clear of its folder has just taken away is no
\* longer in the table.
C21_NoEmptyFileRecord ==
    /\ \A p \in DOMAIN metadata : DOMAIN metadata[p].modes # {}
    /\ last_op.op \in {"remove", "clear_folder"} =>
          \A p \in DOMAIN last_op.before :
             ( /\ DOMAIN last_op.before[p].modes = {last_op.mode}
               /\ IF last_op.op = "remove" THEN p = last_op.path
                  ELSE IsUnder(p, last_op.path) )
             => p \notin DOMAIN metadata

\* a folder was cleared of the one mode a file under it had, while another
\* record stayed
C21_Witness ==
    /\ last_op.op = "clear_folder"
    /\ last_op.mode = "gist"
    /\ File2 \in DOMAIN last_op.before
    /\ DOMAIN last_op.before[File2].modes = {"gist"}
    /\ IsUnder(File2, last_op.path)
    /\ File2 \notin DOMAIN metadata
    /\ File1 \in DOMAIN metadata

\* C22: remove(path, mode) takes away only that mode's record of the path:
\* the path's other ModeRecords and the records of every other path are as
\* before; with the mode omitted, or when the mode was the last one of the
\* path, the whole entry goes; on a path the table does not know, or a mode
\* the path has no record for, the table is as before.
C22_RemoveFrame ==
    last_op.op = "remove" =>
        LET p == last_op.path
            m == last_op.mode
            before == last_op.before
        IN /\ DOMAIN metadata \subseteq DOMAIN before
           /\ \A q \in (DOMAIN before) \ {p} : q \in DOMAIN metadata /\ metadata[q] = before[q]
           /\ p \in DOMAIN before =>
                 IF m = NoMode \/ DOMAIN before[p].modes = {m}
                 THEN p \notin DOMAIN metadata
                 ELSE /\ p \in DOMAIN metadata
                      /\ DOMAIN metadata[p].modes = (DOMAIN before[p].modes) \ {m}
                      /\ \A x \in DOMAIN metadata[p].modes :
                            metadata[p].modes[x] = before[p].modes[x]

\* one mode of a file recorded in both modes was removed, next to another file
C22_Witness ==
    /\ last_op.op = "remove"
    /\ last_op.path = File2
    /\ last_op.mode = "gist"
    /\ File2 \in DOMAIN last_op.before
    /\ DOMAIN last_op.before[File2].modes = Modes
    /\ File1 \in DOMAIN last_op.before
    /\ File2 \in DOMAIN metadata
    /\ DOMAIN metadata[File2].modes = {"pinpoint"}

\* The claim's reading of a mismatch for classify, with a given test on the
\* two modification times.
NeedsIndexBy(p, mode, mtime_differs(_, _)) ==
    \/ ~has_file_in_mode(metadata, p, mode)
    \/ ~fs[p].exists
    \/ LET rec == metadata[p].modes[mode]
       IN \/ fs[p].content # rec.file_hash
          \/ FileSize(fs[p].content) # rec.file_size
          \/ mtime_differs(fs[p].mtime, rec.last_modified)

\* C23 as stated: classify(paths, mode) puts every path in exactly one of
\* needsIndex and canSkip, and a path is in needsIndex whenever it has no
\* ModeRecord for the mode, cannot be read, or its hash, size or mtime is
\* not the stored one.
C23_AnyMismatch ==
    classified.mode # NoMode =>
        /\ classified.files_to_index \cup classified.files_to_skip = EngineFiles
        /\ classified.files_to_index \cap classified.files_to_skip = {}
        /\ \A p \in EngineFiles :
              NeedsIndexBy(p, classified.mode, LAMBDA a, b : a # b)
                 => p \in classified.files_to_index

\* C23, amended: classify(paths, mode) puts every path in exactly one of
\* needsIndex and canSkip, and a path is in needsIndex whenever it has no
\* ModeRecord for the mode, cannot be read, its hash or size is not the
\* stored one, or its mtime is a second or more away from the stored one.
C23_Classify ==
    classified.mode # NoMode =>
        /\ classified.files_to_index \cup classified.files_to_skip = EngineFiles
        /\ classified.files_to_index \cap classified.files_to_skip = {}
        /\ \A p \in EngineFiles :
              NeedsIndexBy(p, classified.mode, LAMBDA a, b : Abs(a - b) >= OneSecond)
                 => p \in classified.files_to_index

\* File2 was classified as skippable although its mtime is not the stored
\* one, next to a run in which a larger difference sent it to needsIndex
C23_Witness ==
    /\ classified.mode # NoMode
    /\ File2 \in classified.files_to_skip
    /\ fs[File2].mtime # metadata[File2].modes[classified.mode].last_modified

\* C24: after every mutation of the table (update, remove, clear-folder,
\* clear-all) the file holds the table that is in memory, so a tracker
\* started over the file has exactly the records of the running one; for a
\* table started from no file, from a new-format file and from an
\* old-format file migrated on load.
C24_PersistedEqualsMemory ==
    load_metadata(metadata_file).metadata = metadata

(***************************************************************************)
(* BranchManifest.detect_changes and the scan of index_github_repository   *)
(* over the same clone with the same arguments.  Paths are relative to     *)
(* the repository root; sizes are whole megabytes.                         *)
(***************************************************************************)
MAX_FILE_SIZE_MB == 50

RelA == <<"A.py">>
RelB == <<"B.py">>
RelC == <<"C.py">>
RelGit == <<".git", "config">>
RelLog == <<"docs", "x.log">>

\* filter_hidden_dirs: directory names os.walk does not descend into.
FilteredDirNames == HiddenComponents \cup {"node_modules", "build", "dist", "coverage"}

\* fname.startswith('.') and fname.startswith('~')
HiddenFileNames == {".gitignore"}
SystemFileNames == {"~lock"}

ExcludePatterns == {"*.log", "docs/"}

\* fnmatch.fnmatch of one path component against a pattern without '/'
fnmatch(name, pattern) ==
    \/ name = pattern
    \/ pattern = "*.log" /\ name \in {"x.log", "app.log"}

\* matches_exclusion_patterns: a pattern ending in '/' is matched without
\* the slash against the components of the path, any other pattern of
\* ExcludePatterns against every component.
matches_exclusion_patterns(path, exclude_patterns) ==
    \E pattern \in exclude_patterns :
        LET dir_pattern == IF pattern = "docs/" THEN "docs" ELSE pattern
        IN \E i \in 1..Len(path) : fnmatch(path[i], dir_pattern)

\* The in-place pruning of dirs in both walks: hidden directories, then
\* the directories the exclusion patterns name.
dir_pruned(dir_path, custom_excludes) ==
    \/ basename(dir_path) \in FilteredDirNames
    \/ /\ custom_excludes # {}
       /\ \/ matches_exclusion_patterns(dir_path, custom_excludes)
          \/ matches_exclusion_patterns(<<basename(dir_path)>>, custom_excludes)

\* os.walk reaches the directory of p.
walk_reaches(p, custom_excludes) ==
    \A i \in 1..(Len(p) - 1) : ~dir_pruned(SubSeq(p, 1, i), custom_excludes)

\* detect_changes, the scan: the relative paths entered in current_files.
current_files(r) ==
    IF ~r.exists THEN {}
    ELSE {p \in DOMAIN r.tree :
             /\ walk_reaches(p, r.custom_excludes)
             /\ ~(Len(p) > 1 /\ is_hidden_path(dirname(p)))
             /\ basename(p) \notin HiddenFileNames
             /\ basename(p) \notin SystemFileNames
             /\ ~( /\ r.custom_excludes # {}
                   /\ \/ matches_exclusion_patterns(p, r.custom_excludes)
                      \/ matches_exclusion_patterns(<<basename(p)>>, r.custom_excludes) )
             /\ ~( /\ r.max_size_mb.given
                   /\ r.max_size_mb.mb > 0
                   /\ r.tree[p].size > r.max_size_mb.mb )}

\* A comparison with the manifest that looks at the size only
detect_changes_SizeOnly(r, md) ==
    LET cur == current_files(r)
        manifest_files == md.files
    IN IF ~r.exists THEN [NoChanges EXCEPT !.done = TRUE]
       ELSE [done |-> TRUE,
             current_files |-> cur,
             added |-> {p \in cur : p \notin DOMAIN manifest_files},
             modified |-> {p \in cur : /\ p \in DOMAIN manifest_files
                                       /\ r.tree[p].size # manifest_files[p].size},
             removed |-> {p \in DOMAIN manifest_files : p \notin cur}]

\* detect_changes: the three lists.
detect_changes(r, md) ==
    LET cur == current_files(r)
        manifest_files == md.files
    IN IF ~r.exists THEN [NoChanges EXCEPT !.done = TRUE]
       ELSE [done |-> TRUE,
             current_files |-> cur,
             added |-> {p \in cur : p \notin DOMAIN manifest_files},
             modified |-> {p \in cur : /\ p \in DOMAIN manifest_files
                                       /\ \/ r.tree[p].hash # manifest_files[p].hash
                                          \/ r.tree[p].size # manifest_files[p].size},
             removed |-> {p \in DOMAIN manifest_files : p \notin cur}]

\* index_github_repository, the scan: the paths appended to all_files.
all_files(r) ==
    IF ~r.exists THEN {}
    ELSE {p \in DOMAIN r.tree :
             /\ walk_reaches(p, r.custom_excludes)
             /\ ~(Len(p) > 1 /\ is_hidden_path(dirname(p)))
             /\ basename(p) \notin HiddenFileNames
             /\ basename(p) \notin SystemFileNames
             /\ ~( /\ r.custom_excludes # {}
                   /\ \/ matches_exclusion_patterns(p, r.custom_excludes)
                      \/ matches_exclusion_patterns(<<basename(p)>>, r.custom_excludes) )}

\* index_github_repository, the size check at the head of the file loop.
size_limit(max_size_mb) == IF max_size_mb.given THEN max_size_mb.mb ELSE MAX_FILE_SIZE_MB

passes_size_check(r, p) ==
    ~(size_limit(r.max_size_mb) > 0 /\ r.tree[p].size > size_limit(r.max_size_mb))

DetectChanges ==
    /\ ~changes.done
    /\ changes' = detect_changes(repo, manifest_data)
    /\ UNCHANGED <<repo, manifest_data, accepted>>
    /\ UNCHANGED <<fs, metadata, collection, indexing_status, workers, monitored_folders,
                   sync_queue, embed_calls, budget, pending_events, timers, in_flight,
                   stat_cache, now, audit, table_vars, handling>>

GithubScan ==
    /\ ~accepted.done
    /\ accepted' = [done |-> TRUE, files |-> {p \in all_files(repo) : passes_size_check(repo, p)}]
    /\ UNCHANGED <<repo, manifest_data, changes>>
    /\ UNCHANGED <<fs, metadata, collection, indexing_status, workers, monitored_folders,
                   sync_queue, embed_calls, budget, pending_events, timers, in_flight,
                   stat_cache, now, audit, table_vars, handling>>

\* The states a file of the clone may be found in, and the entries the
\* manifest may hold for it.
TreeStates(p) ==
    CASE p = RelA -> {[hash |-> "h1", size |-> 1]}
      [] p = RelB -> {[hash |-> "h2", size |-> 1], [hash |-> "h3", size |-> 1],
                      [hash |-> "h3", size |-> 20]}
      [] p = RelC -> {[hash |-> "h1", size |-> 1], [hash |-> "h1", size |-> 60]}
      [] OTHER -> {[hash |-> "h1", size |-> 1]}

RelPaths == {RelA, RelB, RelC, RelGit, RelLog}

Trees ==
    UNION {{t \in [ps -> UNION {TreeStates(p) : p \in ps}] : \A p \in ps : t[p] \in TreeStates(p)} :
           ps \in SUBSET RelPaths}

ManifestEntry(p) == IF p = RelB THEN [hash |-> "h2", size |-> 1] ELSE [hash |-> "h1", size |-> 1]

Manifests == {[files |-> [p \in ps |-> ManifestEntry(p)]] : ps \in SUBSET {RelA, RelB, RelLog}}

SizeLimits == {NoLimit} \cup {[given |-> TRUE, mb |-> n] : n \in {0, 10, 100}}

InitManifest ==
    /\ \/ repo = NoRepo
       \/ \E t \in Trees, e \in {{}, {"*.log"}, {"docs/"}}, l \in SizeLimits :
             repo = [exists |-> TRUE, tree |-> t, custom_excludes |-> e, max_size_mb |-> l]
    /\ manifest_data \in Manifests
    /\ changes = NoChanges
    /\ accepted = NoneAccepted
    /\ fs = InitFiles
    /\ metadata = <<>>
    /\ collection = [m \in Modes |-> {}]
    /\ monitored_folders = [m \in Modes |-> {}]
    /\ indexing_status = IdleStatus
    /\ workers = [t \in Threads |-> IdleThread]
    /\ sync_queue = [m \in Modes |-> <<>>]
    /\ embed_calls = [t \in Threads |-> 0]
    /\ budget = NoneSpent
    /\ pending_events = <<>>
    /\ timers = {}
    /\ in_flight = [p \in LocalFiles |-> <<>>]
    /\ stat_cache = <<>>
    /\ now = 0
    /\ audit = [p \in LocalFiles |-> NoAudit]
    /\ handling = {}
    /\ TableInit

NextManifest == DetectChanges \/ GithubScan

SpecManifest == InitManifest /\ [][NextManifest]_vars

\* C25: detectChanges returns as added the paths of the filtered tree that
\* the manifest does not list, as modified the paths in both whose hash or
\* size is not the manifest's, and as removed the manifest's paths that are
\* not in the filtered tree; the three are pairwise disjoint and a path
\* with the manifest's hash and size is in none of them.
C25_ManifestDiff ==
    (changes.done /\ repo.exists) =>
        LET tree == changes.current_files
            listed == DOMAIN manifest_data.files
            differs(p) == \/ repo.tree[p].hash # manifest_data.files[p].hash
                          \/ repo.tree[p].size # manifest_data.files[p].size
        IN /\ changes.added = tree \ listed
           /\ changes.modified = {p \in tree \cap listed : differs(p)}
           /\ changes.removed = listed \ tree
           /\ changes.added \cap changes.modified = {}
           /\ changes.added \cap changes.removed = {}
           /\ changes.modified \cap changes.removed = {}
           /\ \A p \in tree \cap listed :
                 ~differs(p) => p \notin changes.added \cup changes.modified \cup changes.removed

\* the manifest lists A and B, the tree holds A unchanged, B with another
\* hash and the new C
C25_Witness ==
    /\ changes.done
    /\ repo.exists
    /\ DOMAIN manifest_data.files = {RelA, RelB}
    /\ DOMAIN repo.tree = {RelA, RelB, RelC}
    /\ repo.tree[RelB].hash = "h3"
    /\ changes.added = {RelC}
    /\ changes.modified = {RelB}
    /\ changes.removed = {}

\* C26: for every tree, exclusion list and size limit, also when no limit
\* is given, the paths detectChanges treats as present are the files the
\* repository index run accepts under the same arguments.
C26_SameFilter ==
    (changes.done /\ accepted.done) => changes.current_files = accepted.files

(***************************************************************************)
(* Cancellation while the loop body is at work on a file: one run at a     *)
(* time, a full index of FolderA or a sync pass, and POST                  *)
(* /api/index/cancel arriving only while some run is inside the body.      *)
(***************************************************************************)
CancelDuringFile ==
    /\ \E t \in Threads : workers[t].current # <<>>
    /\ cancel_indexing

NextCancel ==
    \/ \E p \in EngineFiles, e \in EventTypes :
          RecordEvent(p, e) /\ Spend("events", MaxSyncEvents)
    \/ /\ \A t \in Threads : workers[t].pc = "idle"
       /\ \E m \in Modes : index_folders({FolderA}, m) /\ Spend("runs", MaxPasses)
    \/ /\ \A t \in Threads : workers[t].pc = "idle"
       /\ \E m \in Modes : execute_sync(m) /\ Spend("runs", MaxPasses)
    \/ CancelDuringFile
    \/ \E t \in Threads : IndexStart(t)
    \/ \E t \in Threads : SyncStart(t)
    \/ \E t \in Threads, p \in EngineFiles : FileBegin(t, p)
    \/ \E t \in Threads, k \in 0..2 : IndexFileEnd(t, k)
    \/ \E t \in Threads, ok \in BOOLEAN : SyncDeleteEnd(t, ok)
    \/ \E t \in Threads, del_ok \in BOOLEAN, added \in SUBSET (1..2) :
          SyncUpdateEnd(t, del_ok, added)
    \/ \E t \in Threads : LoopCancelled(t)
    \/ \E t \in Threads : RunExcept(t)
    \/ \E t \in Threads : IndexFinish(t)
    \/ \E t \in Threads : SyncFinish(t)

SpecCancel == InitSync /\ [][NextCancel]_vars

\* The run of thread t starts on a file
StartsFile(t) == workers[t].current = <<>> /\ workers'[t].current # <<>>

\* The run of thread t ends the body it was in, having stored rows of the file
StoresFile(t) ==
    /\ workers[t].current # <<>>
    /\ workers'[t].current = <<>>
    /\ workers'[t].pc = "loop"
    /\ collection' # collection
    /\ GetWherePath(collection'[workers[t].mode], workers[t].current) # {}

\* The run of thread t is over
RunEnds(t) == workers[t].pc # "idle" /\ workers'[t].pc = "idle"

\* C27: cancellation is looked at once per file, at the head of the loop:
\* when the cancel flag is set while a file is being processed, that file
\* is still completed and joins the touched set, no file is started after
\* it, and when the run ends every file of its touched set, the completed
\* one included, has been rolled back.
C27_CooperativeCancel ==
    [][\A t \in Threads :
          /\ StartsFile(t) => ~indexing_status.cancel_requested
          /\ (indexing_status.cancel_requested /\ StoresFile(t))
                => workers[t].current \in workers'[t].touched
          /\ (indexing_status.cancel_requested /\ RunEnds(t))
                => \A p \in workers[t].touched :
                      /\ GetWherePath(collection'[workers[t].mode], p) = {}
                      /\ ~has_file_in_mode(metadata', p, workers[t].mode)]_vars

\* C28: a raw event accepted for a path that already has a pending timer
\* resets the timer: after every accepted raw event the path's timer is due
\* one debounce window after that event, so the canonical event fires one
\* full window after the latest raw event.
C28_TimerReset ==
    [][\A p \in LocalFiles :
          (Buffered(p))' > Buffered(p)
             => [path |-> p, deadline |-> now + debounce_time] \in timers']_vars


(***************************************************************************)
(* Chunk failures inside one file, checked under Spec.                     *)
(***************************************************************************)

\* The chunk indexes path p has in a collection.
ChunkIndexes(rows, p) == {r.chunk_index : r \in {q \in rows : q.path = p}}

\* The chunks are the first k of a file, for some k.
IsPrefix(idx) == \A i \in idx : \A j \in 1..i : j \in idx

\* C29: when embedding or storing one chunk of a file fails, the remaining
\* chunks of that file are aborted and the failed chunk is not retried, in
\* the full-index run, the sync pass and the repository run.  Seen on a step
\* in which thread t embeds: a path whose chunks in the run's collection were
\* the first a chunks of the file (or none) before the step has the first k
\* chunks after it, for some k, since the step stores chunks in order and
\* stops at the first that fails; and the iteration on a path that had no
\* chunk before made at most k + 1 encode calls (the k chunks that were
\* stored and the one that failed).
C29_AbortRemainingChunks ==
    [][\A t \in Threads : \A p \in AllFiles :
          LET before == ChunkIndexes(collection[workers[t].mode], p)
              after == ChunkIndexes(collection'[workers[t].mode], p)
          IN (embed_calls'[t] > embed_calls[t] /\ IsPrefix(before))
                => /\ IsPrefix(after)
                   /\ (before = {} /\ p \in workers[t].todo /\ p \notin workers'[t].todo)
                         => embed_calls'[t] - embed_calls[t] <= Cardinality(after) + 1]_vars

(***************************************************************************)
(* Sync passes of the two modes side by side: /api/sync/execute starts a   *)
(* thread for a mode whose queue is not empty, whatever else is running.   *)
(* Here the second pass is of the other mode.                              *)
(***************************************************************************)
\* No thread is running a pass of this mode
ModeIdle(mode) == \A t \in Threads : workers[t].pc = "idle" \/ workers[t].mode # mode

NextOverlap ==
    \/ \E e \in EventTypes : RecordEvent(File2, e) /\ Spend("events", MaxSyncEvents)
    \/ \E m \in Modes : ModeIdle(m) /\ execute_sync(m) /\ Spend("runs", MaxRuns)
    \/ cancel_indexing
    \/ \E t \in Threads : SyncStart(t)
    \/ \E t \in Threads, p \in EngineFiles, ok \in BOOLEAN : SyncDelete(t, p, ok)
    \/ \E t \in Threads, p \in EngineFiles, del_ok \in BOOLEAN, added \in SUBSET (1..2) :
          SyncUpdate(t, p, del_ok, added)
    \/ \E t \in Threads : LoopCancelled(t)
    \/ \E t \in Threads : RunExcept(t)
    \/ \E t \in Threads : SyncFinish(t)

SpecOverlap == InitSync /\ [][NextOverlap]_vars

\* Another thread is inside a sync pass of another mode
Overlaps(t) ==
    \E u \in Threads \ {t} :
       /\ workers[u].kind = "sync"
       /\ workers[u].pc \in {"loop", "except"}
       /\ workers[u].mode # workers[t].mode

\* Thread t enters its loop
RunBegins(t) == workers[t].pc = "start" /\ workers'[t].pc = "loop"

\* Thread t leaves through its except clause
RunRollsBack(t) == workers[t].pc = "except" /\ workers'[t].pc = "idle"

\* C30: a sync run of mode A and a sync run of mode B that overlap in time do
\* not interfere.  While another mode's pass is running: the start of a pass
\* leaves the cancel request and the touched-path set of the session as they
\* are; the except clause of a pass leaves the other modes' collections and
\* queues alone, removes from its own collection only rows of paths the pass
\* indexed itself, and drops from the metadata table only such paths.
C30_ModesDoNotInterfere ==
    [][\A t \in Threads :
          Overlaps(t) =>
             /\ RunBegins(t) =>
                   /\ indexing_status'.cancel_requested = indexing_status.cancel_requested
                   /\ indexing_status'.indexed_files_this_session
                         = indexing_status.indexed_files_this_session
             /\ RunRollsBack(t) =>
                   /\ \A m \in Modes \ {workers[t].mode} :
                         collection'[m] = collection[m] /\ sync_queue'[m] = sync_queue[m]
                   /\ \A r \in collection[workers[t].mode] \ collection'[workers[t].mode] :
                         r.path \in workers[t].touched
                   /\ (DOMAIN metadata) \ (DOMAIN metadata') \subseteq workers[t].touched]_vars

(***************************************************************************)
(* One run and its rollback.  The index and the table the run finds are    *)
(* kept in last_op.before, which no step of a run changes.                 *)
(***************************************************************************)
\* What an earlier session indexed of File2 in pinpoint mode
IndexedBefore == {"none", "v1", "v2"}

InitRollback ==
    /\ fs = InitFiles
    /\ \E c \in IndexedBefore :
          /\ metadata = IF c = "none" THEN <<>>
                        ELSE (File2 :> [modes |-> ("pinpoint" :> ModeRecordOf(c, 0))])
          /\ collection = [m \in Modes |->
                              IF m = "pinpoint" /\ c # "none"
                              THEN ChunksOf("local", File2, c) ELSE {}]
    /\ monitored_folders = [m \in Modes |-> {FolderA}]
    /\ indexing_status = IdleStatus
    /\ workers = [t \in Threads |-> IdleThread]
    /\ sync_queue = [m \in Modes |-> <<>>]
    /\ embed_calls = [t \in Threads |-> 0]
    /\ budget = NoneSpent
    /\ metadata_file = NoMetadataFile
    /\ save_metadata = SaveMethod
    /\ classified = NotClassified
    /\ last_op = [NoOp EXCEPT !.before = [collection |-> collection, metadata |-> metadata]]
    /\ ManifestInit
    /\ pending_events = <<>>
    /\ timers = {}
    /\ in_flight = [p \in LocalFiles |-> <<>>]
    /\ stat_cache = <<>>
    /\ now = 0
    /\ audit = [p \in LocalFiles |-> NoAudit]
    /\ handling = {}

NextRollback ==
    \/ \E e \in EventTypes : RecordEvent(File2, e) /\ Spend("events", MaxEvents)
    \/ /\ \A t \in Threads : workers[t].pc = "idle"
       /\ \E m \in Modes : index_folders({FolderA}, m) /\ Spend("runs", MaxPasses)
    \/ /\ \A t \in Threads : workers[t].pc = "idle"
       /\ \E m \in Modes : execute_sync(m) /\ Spend("runs", MaxPasses)
    \/ cancel_indexing
    \/ \E t \in Threads : IndexStart(t)
    \/ \E t \in Threads, p \in EngineFiles, k \in 0..2 : IndexFile(t, p, k)
    \/ \E t \in Threads : SyncStart(t)
    \/ \E t \in Threads, p \in EngineFiles, ok \in BOOLEAN : SyncDelete(t, p, ok)
    \/ \E t \in Threads, p \in EngineFiles, del_ok \in BOOLEAN, added \in SUBSET (1..2) :
          SyncUpdate(t, p, del_ok, added)
    \/ \E t \in Threads : LoopCancelled(t)
    \/ \E t \in Threads : RunExcept(t)
    \/ \E t \in Threads : IndexFinish(t)
    \/ \E t \in Threads : SyncFinish(t)

SpecRollback == InitRollback /\ [][NextRollback]_vars

\* The run was cancelled and its except clause has rolled it back
RolledBack ==
    /\ \A t \in Threads : workers[t].pc = "idle"
    /\ indexing_status.message = "cancelled"

\* C31: cancellation rollback restores the state to before the run started:
\* after a cancelled full-index or sync run has rolled back, the rows of the
\* collections and the records of the table, for every path, equal those the
\* run found.
C31_RollbackRestores ==
    RolledBack => /\ collection = last_op.before.collection
                  /\ metadata = last_op.before.metadata

(***************************************************************************)
(* RealtimeMonitor.force_check_all_folders, applied once to a table, a     *)
(* disk and a set of monitored folders drawn in the initial state.         *)
(***************************************************************************)
\* _scan_folder_for_changes: the files under the folder for which it calls
\* handle_file_event(file_path, 'modified').
scan_folder_for_changes(mf, md, folder_path, chunking_mode) ==
    {p \in LocalFiles :
        /\ exists(p)
        /\ IsUnder(p, folder_path)
        /\ ~should_ignore_file(p)
        /\ \E mfp \in get_all_matching_modes(mf, p) :
              mfp[1] = chunking_mode /\ abspath(mfp[2]) = abspath(folder_path)
        /\ ~is_file_unchanged(md, p, chunking_mode)}

\* _check_for_deleted_files: the paths for which it calls
\* handle_file_event(file_path, 'deleted').  The entry's top-level
\* 'chunking_mode' key is read with dict.get.
check_for_deleted_files(md, chunking_mode, folder_path) ==
    {p \in DOMAIN md :
        /\ Get(md[p], "chunking_mode", NoMode) = chunking_mode
        /\ dirname(abspath(p)) = abspath(folder_path)
        /\ ~exists(p)}

\* The handle_file_event calls of one force check
force_check_calls(mf, md) ==
    UNION {{<<p, "modified">> : p \in scan_folder_for_changes(mf, md, mfp[2], mfp[1])}
           \cup {<<p, "deleted">> : p \in check_for_deleted_files(md, mfp[1], mfp[2])}
              : mfp \in {x \in Modes \X Folders : x[2] \in mf[x[1]]}}

\* The queues and the stat cache after the calls; each call touches only the
\* entries of its own path.
RECURSIVE handle_file_events(_, _, _, _, _, _, _)
handle_file_events(sq, cache, mf, md, t, calls, last) ==
    IF calls = {} THEN [sync_queue |-> sq, stat_cache |-> cache]
    ELSE LET c == CHOOSE x \in calls : TRUE
         IN handle_file_events(
                handle_file_event(sq, mf, md, cache, t, c[1], c[2], last[c[1]]),
                stat_cache_after(mf, md, cache, t, c[1], c[2]),
                mf, md, t, calls \ {c}, last)

force_check_all_folders ==
    /\ last_op.op = "none"
    /\ \E l1 \in LastFolders(monitored_folders, File1),
          l2 \in LastFolders(monitored_folders, File2),
          l3 \in LastFolders(monitored_folders, FileLog) :
          LET after == handle_file_events(sync_queue, stat_cache, monitored_folders,
                                          metadata, now,
                                          force_check_calls(monitored_folders, metadata),
                                          (File1 :> l1 @@ File2 :> l2 @@ FileLog :> l3))
          IN /\ sync_queue' = after.sync_queue
             /\ stat_cache' = after.stat_cache
    /\ last_op' = [NoOp EXCEPT !.op = "force_check"]
    /\ UNCHANGED <<fs, metadata, collection, indexing_status, workers, monitored_folders,
                   embed_calls, budget, pending_events, timers, in_flight, now, audit,
                   metadata_file, save_metadata, classified, manifest_vars, handling>>

\* The records a file may have in the table: none, or one per mode of a set
ForceEntries ==
    {<<>>} \cup {[modes |-> [m \in ms |-> ModeRecordOf(c, 0)]] :
                    ms \in (SUBSET Modes) \ {{}}, c \in {"v1", "v2"}}

InitForce ==
    /\ \E e1 \in BOOLEAN, e2 \in BOOLEAN :
          fs = [InitFiles EXCEPT ![File1] = IF e1 THEN @ ELSE NoFile,
                                 ![File2] = IF e2 THEN @ ELSE NoFile]
    /\ \E r1 \in ForceEntries, r2 \in ForceEntries :
          metadata = [p \in {q \in {File1, File2} : (IF q = File1 THEN r1 ELSE r2) # <<>>} |->
                         IF p = File1 THEN r1 ELSE r2]
    /\ monitored_folders \in [Modes -> SUBSET Folders]
    /\ collection = [m \in Modes |-> {}]
    /\ indexing_status = IdleStatus
    /\ workers = [t \in Threads |-> IdleThread]
    /\ sync_queue = [m \in Modes |-> <<>>]
    /\ embed_calls = [t \in Threads |-> 0]
    /\ budget = NoneSpent
    /\ MonitorInit

SpecForce == InitForce /\ [][force_check_all_folders]_vars

\* C32: force_check_all_folders enqueues a deleted event, in the mode
\* concerned, for every file that has a record in that mode, lies directly in
\* a monitored folder of that mode and no longer exists on disk.
C32_DeletedFilesEnqueued ==
    last_op.op = "force_check" =>
       \A m \in Modes : \A p \in DOMAIN metadata :
          (/\ has_file_in_mode(metadata, p, m)
           /\ dirname(abspath(p)) \in monitored_folders[m]
           /\ ~exists(p))
             => /\ abspath(p) \in DOMAIN sync_queue[m]
                /\ sync_queue[m][abspath(p)].event_type = "deleted"

(***************************************************************************)
(* Runs one after the other: a full-index run, a sync pass or a repository *)
(* run is requested only when no other run is active, while a file changes *)
(* and its event is recorded.                                              *)
(***************************************************************************)
NextSerial ==
    \/ \E c \in EngineContents : WriteFile(File2, c, 0) /\ Spend("changes", MaxChanges)
    \/ \E e \in EventTypes : RecordEvent(File2, e) /\ Spend("events", MaxEvents)
    \/ /\ \A t \in Threads : workers[t].pc = "idle"
       /\ \E m \in Modes : index_folders({FolderA}, m) /\ Spend("runs", MaxRuns)
    \/ /\ \A t \in Threads : workers[t].pc = "idle"
       /\ \E m \in Modes : execute_sync(m) /\ Spend("runs", MaxRuns)
    \/ cancel_indexing
    \/ \E t \in Threads : IndexStart(t)
    \/ \E t \in Threads, p \in EngineFiles, k \in 0..2 : IndexFile(t, p, k)
    \/ \E t \in Threads : SyncStart(t)
    \/ \E t \in Threads, p \in EngineFiles, ok \in BOOLEAN : SyncDelete(t, p, ok)
    \/ \E t \in Threads, p \in EngineFiles, del_ok \in BOOLEAN, added \in SUBSET (1..2) :
          SyncUpdate(t, p, del_ok, added)
    \/ \E t \in Threads : LoopCancelled(t)
    \/ \E t \in Threads : RunExcept(t)
    \/ \E t \in Threads : IndexFinish(t)
    \/ \E t \in Threads : SyncFinish(t)
    \/ /\ \A t \in Threads : workers[t].pc = "idle"
       /\ \E m \in Modes : github_index_repo(m) /\ Spend("runs", MaxRuns)
    \/ \E t \in Threads : RepoStart(t)
    \/ \E t \in Threads, a \in SUBSET (1..2) : RepoIndexFile(t, RepoFile, a)
    \/ \E t \in Threads : RepoFinish(t)
    \/ \E t \in Threads : RepoExcept(t)

SpecSerial == InitSync /\ [][NextSerial]_vars

\* C33: in every reachable state, if classify would put path p in canSkip for
\* mode m then mode m's collection holds at least one row for p: a file is
\* never skipped as up to date while the index has no rows for it.
C33_SkipImpliesRows ==
    \A m \in Modes : \A p \in LocalFiles :
       is_file_unchanged(metadata, p, m) => \E r \in collection[m] : r.path = p

\* C34: no queued change is lost: an event placed in a mode's queue is
\* processed by a sync pass of that mode or replaced by a later event for the
\* same path, and an event recorded while a pass is running is not removed
\* from the queue without having been processed.  On the step that completes
\* a pass: every entry the step takes out of the queue of the pass's mode is
\* an entry of the snapshot the pass worked off, the same event for the same
\* path.
C34_NoQueuedChangeLost ==
    [][\A t \in Threads :
          PassCompletes(t) =>
             \A x \in (DOMAIN sync_queue[workers[t].mode])
                         \ (DOMAIN sync_queue'[workers[t].mode]) :
                /\ x \in DOMAIN workers[t].events
                /\ workers[t].events[x] = sync_queue[workers[t].mode][x].event_type]_vars

\* C35: a cancel request never cancels a run that started after the request
\* was made: every run (full index, sync pass, repository index) starts with
\* cancel_requested false or clears it before its first per-file cancellation
\* check.  With runs started one after the other no cancel is accepted
\* between the request for a run and its first check, so the flag is false
\* when the run enters its file loop.
C35_NoStaleCancel ==
    [][\A t \in Threads : RunBegins(t) => ~indexing_status'.cancel_requested]_vars

\* C36: every cancel request that is accepted leads to the active run ending
\* in the cancelled state with its rollback performed, for full-index runs,
\* sync passes and repository runs alike; an accepted cancel never ends with
\* the run reported as completed or failed.  On the step that ends a run
\* while a cancel request is pending: the status says cancelled, and no row
\* of a path the run indexed is left in the run's collection.
C36_AcceptedCancelEndsCancelled ==
    [][\A t \in Threads :
          (RunEnds(t) /\ indexing_status.cancel_requested) =>
             /\ indexing_status'.message = "cancelled"
             /\ \A r \in collection'[workers[t].mode] :
                   r.path \notin workers[t].touched]_vars

\* C37: for one path, canonical events reach the sync queue in the order in
\* which their debounce windows expired, under any interleaving of the timer
\* threads: the final event handed to handle_file_event is the one whose
\* window expired first among those still waiting, so the event a queue holds
\* for the path comes from the most recently expired window.
C37_WindowOrder ==
    [][\A p \in LocalFiles :
          Len(in_flight'[p]) < Len(in_flight[p]) => in_flight'[p] = Tail(in_flight[p])]_vars

(***************************************************************************)
(* SyncTracker.handle_file_event in two steps: get_all_matching_modes is   *)
(* called before self.lock is taken, the queues are updated under the      *)
(* lock.  Folders are added and removed, and queues cleared, in between.   *)
(***************************************************************************)
\* The monitored folders as the (mode, folder) pairs of a lookup describe them
folders_of(matching_modes) ==
    [m \in Modes |-> {x[2] : x \in {y \in matching_modes : y[1] = m}}]

\* handle_file_event up to `with self.lock`: nothing matches and the call
\* returns, or the matches are kept for the loop.
HandleBegin(p, event_type) ==
    /\ get_all_matching_modes(monitored_folders, p) # {}
    /\ handling' = handling \cup
                      {[path |-> p, event_type |-> event_type,
                        matching_modes |-> get_all_matching_modes(monitored_folders, p)]}
    /\ handling' # handling
    /\ UNCHANGED <<fs, metadata, collection, indexing_status, workers, monitored_folders,
                   sync_queue, embed_calls, pending_events, timers, in_flight, stat_cache,
                   now, audit, table_vars, manifest_vars>>

\* handle_file_event under the lock: the loop over the matches it looked up.
HandleEnd(h) ==
    /\ h \in handling
    /\ \E last \in LastFolders(folders_of(h.matching_modes), h.path) :
          sync_queue' = handle_file_event(sync_queue, folders_of(h.matching_modes), metadata,
                                          stat_cache, now, h.path, h.event_type, last)
    /\ stat_cache' = stat_cache_after(folders_of(h.matching_modes), metadata, stat_cache,
                                      now, h.path, h.event_type)
    /\ handling' = handling \ {h}
    /\ UNCHANGED <<fs, metadata, collection, indexing_status, workers, monitored_folders,
                   embed_calls, budget, pending_events, timers, in_flight, now, audit,
                   table_vars, manifest_vars>>

NextRace ==
    \/ \E f \in Folders, m \in Modes : add_monitored_folder(f, m)
    \/ \E f \in Folders, m \in Modes : remove_monitored_folder(f, m)
    \/ \E p \in LocalFiles, e \in EventTypes : HandleBegin(p, e) /\ Spend("events", MaxEvents)
    \/ \E h \in handling : HandleEnd(h)
    \/ \E m \in Modes : ClearQueue(m) /\ Spend("clears", MaxClears)

SpecRace == InitQueue /\ [][NextRace]_vars

\* C38: in every reachable state, under any interleaving of recordEvent,
\* add/remove of monitored folders and queue clearing, every event held in a
\* mode's queue has a folder_path that is currently among that mode's
\* monitored folders.
C38_QueuedRootsMonitored ==
    \A m \in Modes : \A x \in DOMAIN sync_queue[m] :
       sync_queue[m][x].folder_path \in monitored_folders[m]

(***************************************************************************)
(* A full index of a clone followed by detect_changes with the arguments   *)
(* of the run.  A file of the clone has, besides hash and size, the text   *)
(* extract_text returns for it.                                            *)
(***************************************************************************)
\* index_github_repository, the file loop: the relative paths appended to
\* actually_indexed_files.
actually_indexed_files(r) ==
    {p \in all_files(r) :
        /\ passes_size_check(r, p)
        /\ TextLength(r.tree[p].text) >= MIN_CONTENT_LENGTH
        /\ NumChunks(r.tree[p].text) > 0}

\* BranchManifest.update_file_manifest: the entries of the paths that exist
\* are overwritten, every other entry stays.
update_file_manifest(md, r, relative_file_paths) ==
    LET found == {p \in relative_file_paths : p \in DOMAIN r.tree}
    IN [md EXCEPT !.files =
           [p \in DOMAIN md.files \cup found |->
               IF p \in found THEN [hash |-> r.tree[p].hash, size |-> r.tree[p].size]
               ELSE md.files[p]]]

\* index_github_repository over an existing clone, run to its successful end.
GithubIndex ==
    /\ repo.exists
    /\ ~accepted.done
    /\ accepted' = [done |-> TRUE, files |-> actually_indexed_files(repo)]
    /\ manifest_data' = IF actually_indexed_files(repo) # {}
                        THEN update_file_manifest(manifest_data, repo,
                                                  actually_indexed_files(repo))
                        ELSE manifest_data
    /\ UNCHANGED <<repo, changes>>
    /\ UNCHANGED <<fs, metadata, collection, indexing_status, workers, monitored_folders,
                   sync_queue, embed_calls, budget, pending_events, timers, in_flight,
                   stat_cache, now, audit, table_vars, handling>>

TextStates(p) ==
    CASE p = RelA -> {[hash |-> "h1", size |-> 1, text |-> "v1"]}
      [] p = RelB -> {[hash |-> "h2", size |-> 1, text |-> "v1"],
                      [hash |-> "h3", size |-> 1, text |-> "short"],
                      [hash |-> "h4", size |-> 0, text |-> "empty"]}
      [] p = RelC -> {[hash |-> "h1", size |-> 1, text |-> "v2"],
                      [hash |-> "h1", size |-> 60, text |-> "v2"]}
      [] OTHER -> {[hash |-> "h1", size |-> 1, text |-> "v1"]}

TextTrees ==
    UNION {{t \in [ps -> UNION {TextStates(p) : p \in ps}] : \A p \in ps : t[p] \in TextStates(p)} :
           ps \in SUBSET RelPaths}

InitReindex ==
    /\ \E t \in TextTrees, e \in {{}, {"*.log"}, {"docs/"}}, l \in SizeLimits :
          repo = [exists |-> TRUE, tree |-> t, custom_excludes |-> e, max_size_mb |-> l]
    /\ manifest_data \in Manifests
    /\ changes = NoChanges
    /\ accepted = NoneAccepted
    /\ fs = InitFiles
    /\ metadata = <<>>
    /\ collection = [m \in Modes |-> {}]
    /\ monitored_folders = [m \in Modes |-> {}]
    /\ indexing_status = IdleStatus
    /\ workers = [t \in Threads |-> IdleThread]
    /\ sync_queue = [m \in Modes |-> <<>>]
    /\ embed_calls = [t \in Threads |-> 0]
    /\ budget = NoneSpent
    /\ pending_events = <<>>
    /\ timers = {}
    /\ in_flight = [p \in LocalFiles |-> <<>>]
    /\ stat_cache = <<>>
    /\ now = 0
    /\ audit = [p \in LocalFiles |-> NoAudit]
    /\ handling = {}
    /\ TableInit

NextReindex == GithubIndex \/ DetectChanges

SpecReindex == InitReindex /\ [][NextReindex]_vars

\* C39: after a repository full index has succeeded and the working tree
\* has not changed, detectChanges called with the same exclusions and size
\* limit returns empty added, modified and removed lists.
C39_NoChangesAfterIndex ==
    [][(accepted.done /\ ~changes.done /\ changes'.done) =>
          /\ changes'.added = {}
          /\ changes'.modified = {}
          /\ changes'.removed = {}]_vars

\* A full-index run reaches its successful end.
IndexCompletes(t) ==
    /\ workers[t].kind = "index"
    /\ workers[t].pc = "loop"
    /\ workers'[t].pc = "idle"

\* C40: after a successful full-index run has re-indexed a file whose
\* content changed since an earlier run in the same mode, the mode's
\* collection rows for that path are exactly the chunks of the file's current
\* content; no row of the earlier version remains.  The file is one the run
\* indexed, that had a record when the run started and that has not been
\* written since the run indexed it.
C40_ReindexReplacesRows ==
    [][\A t \in Threads : IndexCompletes(t) =>
          \A p \in workers[t].touched \cap workers[t].prior :
             ( /\ fs[p].exists
               /\ has_file_in_mode(metadata, p, workers[t].mode)
               /\ metadata[p].modes[workers[t].mode].file_hash = fs[p].content )
             => GetWherePath(collection'[workers[t].mode], p)
                   = ChunksOf("local", p, fs[p].content)]_vars

====
